---- MODULE Spec2Model ----
(***************************************************************************)
(* State-machine model of the upskill autonomy stack:                      *)
(*   - the Chainlink price cache (lib/price, getEthPriceUsd),              *)
(*   - the autonomy cycle (runAutonomyCycle) and the auto-topup check      *)
(*     (runTopupCheck),                                                    *)
(*   - the daemon loops that repeat them (runDaemon).                      *)
(* Time is in milliseconds, as Date.now(); oracle timestamps are in Unix   *)
(* seconds, as Chainlink's updatedAt.                                      *)
(***************************************************************************)
EXTENDS Integers, Naturals, Sequences, FiniteSets, TLC

VARIABLES
    \* ---- environment of the price cache
    now,            \* Date.now(), milliseconds
    ticks,          \* number of clock advances so far (bounds the run)
    oracle,         \* latest round of the Chainlink feed
    \* ---- lib/price module state
    cachedPrice,    \* <<>> for null, <<PriceData>> otherwise
    lastFetchTime,
    \* ---- the getEthPriceUsd call in progress
    ppc,            \* "idle" | "multicall"
    callNow,        \* the local `now` of the call in progress
    calls,          \* calls to getEthPriceUsd started so far
    remoteCalls,    \* multicalls issued so far
    lastResult,     \* outcome of the last completed call
    \* ---- daemon process (autonomy-loop.ts / auto-topup.ts)
    kind,           \* "autonomy" | "topup": which daemon is running
    dryRun,         \* TopupConfig.dryRun (--dry-run)
    running,        \* module-level flag cleared by SIGINT / SIGTERM
    dpc,            \* position of runDaemon
    consecutiveFailures,
    exitCode,       \* -1 while the process lives, else the exit status
    state,          \* LoopState of autonomy-loop.ts
    \* ---- the cycle in progress
    cpc,            \* position of runAutonomyCycle / runTopupCheck
    reads,          \* status of the three Promise.all reads
    gathered,       \* [wethFees, available] read by the cycle
    op,             \* the claimFees / purchaseCredits call in progress
    cycleErr,       \* "none" | "Error" | "RecoverableError": what the cycle threw
    hist,           \* observation of the run (see HistInit)
    \* ---- lib/retry
    rt,             \* the withRetry call in progress (see Retry0)
    \* ---- coordination/task-dispatcher
    td,             \* the tier table, the wallets and their tasks (see Td0)
    \* ---- lib/price: calculateEthForUsd
    quote,          \* the last calculateEthForUsd call (see Quote0)
    \* ---- the schedule of runDaemon
    pace,           \* clock, cycle start and sleep of the loop (see Pace0)
    \* ---- lib/metrics
    mx              \* handlers, counters and the emission in progress (see Mx0)

priceVars  == <<now, ticks, oracle, cachedPrice, lastFetchTime, ppc, callNow,
                calls, remoteCalls, lastResult>>
daemonVars == <<kind, dryRun, running, dpc, consecutiveFailures, exitCode, state,
                cpc, reads, gathered, op, cycleErr, hist>>
retryVars  == <<rt>>
dispatchVars == <<td>>
calcVars   == <<quote>>
paceVars   == <<pace>>
metricVars == <<mx>>
vars == <<priceVars, daemonVars, retryVars, dispatchVars, calcVars, paceVars,
          metricVars>>

(***************************************************************************)
(* Bounds of the model                                                     *)
(***************************************************************************)
MaxTicks  == 3      \* clock advances in one run
MaxRounds == 2      \* oracle rounds in one run
MaxCalls  == 3      \* calls to getEthPriceUsd in one run
MaxCycles == 5      \* cycles a daemon may start in one run
MaxRetries == 3     \* largest `retries` option of a withRetry call
MaxTasks == 11      \* tasks handed to dispatchTask in one day

T0 == 2 * 60 * 60 * 1000    \* Date.now() when the run starts (2h after the epoch)
Steps == {1000, 60000, 3600000}     \* clock advances, ms
Answers == {200000, 250000}     \* oracle answers: $2000.00, $2500.00 at a precision of 2

(***************************************************************************)
(* lib/price                                                               *)
(***************************************************************************)
CACHE_TTL_MS == 60000
maxAgeMs == 60 * 60 * 1000

\* A price as formatUnits(answer, decimals) denotes it: answer * 10^-decimals
FormatUnits(answer, decimals) == [mantissa |-> answer, decimals |-> decimals]

PriceData(roundData, decimals) ==
    [price     |-> FormatUnits(roundData.answer, decimals),
     updatedAt |-> roundData.updatedAt,
     roundId   |-> roundData.roundId]

\* `cachedPrice && (now - lastFetchTime) < CACHE_TTL_MS`
CacheHitSeconds(cached, n, lft) == cached # <<>> /\ (n - lft) * 1000 < CACHE_TTL_MS
CacheHit(cached, n, lft) == cached # <<>> /\ (n - lft) < CACHE_TTL_MS

\* `ageMs > maxAgeMs` with ageMs = Date.now() - Number(updatedAt) * 1000
IsStaleNever(updatedAt, n) == FALSE
IsStale(updatedAt, n) == (n - updatedAt * 1000) > maxAgeMs

NoResult == [kind |-> "none", value |-> <<>>, callTime |-> 0,
             fetched |-> <<>>, checkedAt |-> 0, fromCache |-> FALSE]

\* The clock advances (also while a call is suspended at its await).
Tick ==
    /\ ticks < MaxTicks
    /\ \E d \in Steps : now' = now + d
    /\ ticks' = ticks + 1
    /\ UNCHANGED <<oracle, cachedPrice, lastFetchTime, ppc, callNow, calls,
                   remoteCalls, lastResult>>
    /\ UNCHANGED <<daemonVars, retryVars, dispatchVars,
      calcVars, paceVars, metricVars>>

\* The feed reports a new round, stamped with the current time in seconds.
OracleUpdate ==
    /\ oracle.roundId < MaxRounds
    /\ \E a \in Answers :
          oracle' = [oracle EXCEPT !.roundId = @ + 1, !.answer = a,
                                   !.updatedAt = now \div 1000]
    /\ UNCHANGED <<now, ticks, cachedPrice, lastFetchTime, ppc, callNow, calls,
                   remoteCalls, lastResult>>
    /\ UNCHANGED <<daemonVars, retryVars, dispatchVars,
      calcVars, paceVars, metricVars>>

\* getEthPriceUsd from entry to the cached return or to the await of multicall
getEthPriceUsd_call ==
    /\ ppc = "idle"
    /\ calls < MaxCalls
    /\ calls' = calls + 1
    /\ callNow' = now
    /\ IF CacheHit(cachedPrice, now, lastFetchTime)
       THEN /\ lastResult' = [kind |-> "value", value |-> cachedPrice,
                              callTime |-> now, fetched |-> <<>>,
                              checkedAt |-> now, fromCache |-> TRUE]
            /\ UNCHANGED <<ppc, remoteCalls>>
       ELSE /\ ppc' = "multicall"
            /\ remoteCalls' = remoteCalls + 1
            /\ UNCHANGED lastResult
    /\ UNCHANGED <<now, ticks, oracle, cachedPrice, lastFetchTime>>
    /\ UNCHANGED <<daemonVars, retryVars, dispatchVars,
      calcVars, paceVars, metricVars>>

\* multicall resolves: both statuses, the freshness check, the cache update
getEthPriceUsd_resume ==
    /\ ppc = "multicall"
    /\ ppc' = "idle"
    /\ \E roundOk \in BOOLEAN, decimalsOk \in BOOLEAN :
         IF ~roundOk \/ ~decimalsOk
         THEN /\ lastResult' = [kind |-> "error", value |-> <<>>,
                                callTime |-> callNow, fetched |-> <<>>,
                                checkedAt |-> now, fromCache |-> FALSE]
              /\ UNCHANGED <<cachedPrice, lastFetchTime>>
         ELSE IF IsStale(oracle.updatedAt, now)
         THEN /\ lastResult' = [kind |-> "error", value |-> <<>>,
                                callTime |-> callNow, fetched |-> <<oracle>>,
                                checkedAt |-> now, fromCache |-> FALSE]
              /\ UNCHANGED <<cachedPrice, lastFetchTime>>
         ELSE /\ cachedPrice' = <<PriceData(oracle, oracle.decimals)>>
              /\ lastFetchTime' = callNow
              /\ lastResult' = [kind |-> "value", value |-> cachedPrice',
                                callTime |-> callNow, fetched |-> <<oracle>>,
                                checkedAt |-> now, fromCache |-> FALSE]
    /\ UNCHANGED <<now, ticks, oracle, callNow, calls, remoteCalls>>
    /\ UNCHANGED <<daemonVars, retryVars, dispatchVars,
      calcVars, paceVars, metricVars>>

\* multicall rejects (transport failure): the exception propagates
getEthPriceUsd_reject ==
    /\ ppc = "multicall"
    /\ ppc' = "idle"
    /\ lastResult' = [kind |-> "error", value |-> <<>>, callTime |-> callNow,
                      fetched |-> <<>>, checkedAt |-> now, fromCache |-> FALSE]
    /\ UNCHANGED <<now, ticks, oracle, cachedPrice, lastFetchTime, callNow,
                   calls, remoteCalls>>
    /\ UNCHANGED <<daemonVars, retryVars, dispatchVars,
      calcVars, paceVars, metricVars>>

clearPriceCache ==
    /\ ppc = "idle"
    /\ cachedPrice # <<>>
    /\ cachedPrice' = <<>>
    /\ lastFetchTime' = 0
    /\ UNCHANGED <<now, ticks, oracle, ppc, callNow, calls, remoteCalls, lastResult>>
    /\ UNCHANGED <<daemonVars, retryVars, dispatchVars,
      calcVars, paceVars, metricVars>>


PriceNext ==
    \/ Tick
    \/ OracleUpdate
    \/ getEthPriceUsd_call
    \/ getEthPriceUsd_resume
    \/ getEthPriceUsd_reject
    \/ clearPriceCache

(***************************************************************************)
(* Amounts.  ETH amounts are in micro-ETH (10^12 wei, the 6 decimals of    *)
(* calculateEthForUsd); gas prices are in tenths of a gwei (10^8 wei).     *)
(***************************************************************************)
minCredits == 5                 \* CONFIG.minCredits, USD
creditPurchaseAmount == 10      \* CONFIG.creditPurchaseAmount, USD
MicroEth == 10^6                \* micro-ETH in one ETH
minWethForTopup == (2 * MicroEth) \div 1000     \* CONFIG.minWethForTopup = 0.002 WETH
minBalance == 5                 \* DEFAULT_CONFIG.minBalance, USD
topupAmount == 10               \* DEFAULT_CONFIG.topupAmount, USD
maxEthPerTopup == MicroEth \div 100     \* DEFAULT_CONFIG.maxEthPerTopup = 0.01 ETH
MAX_GAS_PRICE_GWEI == 50
MAX_CONSECUTIVE_FAILURES == 5
RETRIES == 2                    \* { retries: 2 } of both withRetry call sites

FeeValues    == {0, 1000, 2000}         \* feesToClaim answers: none, below, at the threshold
ClaimableValues == {0, 2000}            \* feesToClaim answers when claimFees reads them again
CreditValues == {4, 5}                  \* available credits: low, healthy
Balances     == {4000, 10000}           \* wallet ETH balances
GasCosts     == {5000, 8334, 9000}      \* gasEstimate * gasPrice of the claim
EthValues    == {4800}                  \* calculateEthForUsd(10, 20) at $2500
GasPrices    == {500, 505, 510}         \* 50 gwei, 50.5 gwei, 51 gwei

ReadNames == {"fees", "credits", "agent"}

(***************************************************************************)
(* Error classes (lib/retry)                                               *)
(***************************************************************************)
isRecoverable(e) == e = "RecoverableError"

(***************************************************************************)
(* The claimFees and purchaseCredits calls                                 *)
(***************************************************************************)
\* locals of a claimFees call: feeInfo.wethFees, balance, estimatedCost, the
\* amounts of the shortfall message (needed), the withRetry attempt, the
\* transactions written, result.wethClaimed, the error thrown; `passed` records
\* which pre-flight checks the call has passed
NoClaim    == [st |-> "none", fees |-> 0, balance |-> 0, estimatedCost |-> 0,
               needed |-> 0, attempt |-> 0, txs |-> 0, wethClaimed |-> 0,
               passed |-> {}, err |-> "none", status |-> "none"]
\* locals of a purchaseCredits call: balance, ethValue, gasPrice, ...
NoPurchase == [st |-> "none", balance |-> 0, ethValue |-> 0, gasPrice |-> 0,
               needed |-> 0, attempt |-> 0, txs |-> 0, passed |-> {},
               err |-> "none"]
NoOp       == [claim |-> NoClaim, purchase |-> NoPurchase]

Settled(o)  == o.st \in {"done", "failed"}
InFlight(o) == o.st \notin {"none", "done", "failed"}

\* the call threw e: its locals are gone, the transactions it sent remain
Fail(o, e) ==
    [f \in DOMAIN o |-> CASE f = "st"  -> "failed"
                          [] f = "err" -> e
                          [] f = "txs" -> o.txs
                          [] f = "passed" -> {}
                          [] f = "status" -> "none"
                          [] OTHER     -> 0]
\* the call threw `Insufficient ETH ... Need ~needed ETH, have available ETH`
Shortfall(o, needed, available) ==
    [Fail(o, "Error") EXCEPT !.needed = needed, !.balance = available]
\* withRetry returned the hash of the transaction written; the locals that are
\* not read again (the balance, the amounts, the attempt) are dropped
Submitted(o) ==
    [f \in DOMAIN o |-> CASE f = "st"  -> "receipt"
                          [] f = "txs" -> o.txs + 1
                          [] f \in {"fees", "gasPrice", "passed", "err", "status"} -> o[f]
                          [] OTHER     -> 0]
\* the cycle has read the result of the call (or caught its error): of the
\* call only its outcome and the transactions it sent remain
Consumed(c) == [NoClaim EXCEPT !.st = c.st, !.err = c.err, !.txs = c.txs]
\* claimFees returned a result with this wethClaimed
ClaimReturn(c, wethClaimed) ==
    [NoClaim EXCEPT !.st = "done", !.txs = c.txs, !.wethClaimed = wethClaimed]
\* purchaseCredits returned the transaction hash
PurchaseReturn(p) == [NoPurchase EXCEPT !.st = "done", !.txs = p.txs]

\* withRetry, lines 37-58: after a failed attempt either give up or go round again
RetryExhausted(attempt, retries) == attempt > retries

\* an attempt of withRetry(simulateContract + writeContract) rejected; `sent`
\* tells whether writeContract had handed the transaction to the node before
\* it rejected (the answer of eth_sendRawTransaction was lost or timed out)
SubmitRejected(o, sent) ==
    LET o1 == [o EXCEPT !.txs = IF sent THEN @ + 1 ELSE @] IN
    IF RetryExhausted(o.attempt, RETRIES) THEN Fail(o1, "Error")
    ELSE [o1 EXCEPT !.attempt = @ + 1]

Alive == exitCode = -1

\* options.dryRun of a claimFees / purchaseCredits call: the --dry-run flag of
\* the claim-fees and purchase-credits commands; runAutonomyCycle and
\* runTopupCheck never pass it
DryRunOff(k, d) == FALSE
optionsDryRun(k, d) == k \in {"claim", "purchase"} /\ d

\* `(estimatedCost * 12n) / 10n`, a BigInt division
requiredBalance(estimatedCost) == (estimatedCost * 12) \div 10

\* `balance < requiredBalance` / `balance < ethValue`
BalanceShortNever(balance, required) == FALSE
BalanceShort(balance, required) == balance < required

\* `gasPrice / 1_000_000_000n`, a BigInt division (gasPrice in tenths of a gwei)
gasPriceGwei(gasPrice) == gasPrice \div 10

\* `gasPriceGwei > MAX_GAS_PRICE_GWEI`
AboveCeiling(gasPrice) == gasPriceGwei(gasPrice) > MAX_GAS_PRICE_GWEI

\* ---- claimFees(tokenAddress, { claimBoth: false, dryRun }) ----

\* `await checkFees(...)` resolves with the fees to claim, or rejects; the
\* nothing-to-claim return and the dry-run return
claimFees_checkFees ==
    /\ Alive
    /\ op.claim.st = "checkFees"
    /\ \/ \E wethFees \in ClaimableValues, tokenFees \in {0, 1} :
            LET hasClaimable == wethFees > 0 \/ tokenFees > 0 IN
            IF ~hasClaimable
            THEN /\ op' = [op EXCEPT !.claim = ClaimReturn(@, 0)]
                 /\ UNCHANGED hist
            ELSE IF optionsDryRun(kind, dryRun)
            THEN /\ op' = [op EXCEPT !.claim = ClaimReturn(@, 0)]
                 /\ hist' = [hist EXCEPT !.dryRan = TRUE]
            ELSE /\ op' = [op EXCEPT !.claim =
                             [@ EXCEPT !.st = "preflight", !.fees = wethFees]]
                 /\ UNCHANGED hist
       \/ /\ op' = [op EXCEPT !.claim = Fail(@, "Error")]
          /\ UNCHANGED hist
    /\ UNCHANGED <<kind, dryRun, running, dpc, consecutiveFailures, exitCode, state,
                   cpc, reads, gathered, cycleErr>>
    /\ UNCHANGED <<priceVars, retryVars, dispatchVars,
      calcVars, paceVars, metricVars>>

\* getBalance, estimateContractGas, getGasPrice and the 20% buffer check
claimFees_preflight ==
    /\ Alive
    /\ op.claim.st = "preflight"
    /\ \/ \E balance \in Balances, estimatedCost \in GasCosts :
            op' = [op EXCEPT !.claim =
                     IF BalanceShort(balance, requiredBalance(estimatedCost))
                     THEN [Shortfall(@, requiredBalance(estimatedCost), balance)
                             EXCEPT !.estimatedCost = estimatedCost]
                     ELSE IF @.fees > 0
                     THEN [@ EXCEPT !.st = "submit", !.attempt = 1,
                                    !.balance = balance,
                                    !.estimatedCost = estimatedCost,
                                    !.passed = @ \cup {"balance"}]
                     ELSE ClaimReturn(@, 0)]
       \/ op' = [op EXCEPT !.claim = Fail(@, "Error")]
    /\ UNCHANGED <<kind, dryRun, running, dpc, consecutiveFailures, exitCode, state,
                   cpc, reads, gathered, cycleErr, hist>>
    /\ UNCHANGED <<priceVars, retryVars, dispatchVars,
      calcVars, paceVars, metricVars>>

\* one attempt of withRetry(simulateContract + writeContract, { retries: 2 })
claimFees_submit ==
    /\ Alive
    /\ op.claim.st = "submit"
    /\ \/ op' = [op EXCEPT !.claim = Submitted(@)]
       \/ \E sent \in BOOLEAN : op' = [op EXCEPT !.claim = SubmitRejected(@, sent)]
    /\ UNCHANGED <<kind, dryRun, running, dpc, consecutiveFailures, exitCode, state,
                   cpc, reads, gathered, cycleErr, hist>>
    /\ UNCHANGED <<priceVars, retryVars, dispatchVars,
      calcVars, paceVars, metricVars>>

\* waitForTransactionReceipt resolves (its status is not inspected) or rejects
claimFees_receipt ==
    /\ Alive
    /\ op.claim.st = "receipt"
    /\ \/ \E status \in {"success", "reverted"} :
            op' = [op EXCEPT !.claim = [ClaimReturn(@, @.fees) EXCEPT !.status = status]]
       \/ op' = [op EXCEPT !.claim = Fail(@, "Error")]
    /\ UNCHANGED <<kind, dryRun, running, dpc, consecutiveFailures, exitCode, state,
                   cpc, reads, gathered, cycleErr, hist>>
    /\ UNCHANGED <<priceVars, retryVars, dispatchVars,
      calcVars, paceVars, metricVars>>

\* ---- purchaseCredits(amount, { dryRun, knownBalance? }) ----

\* getBalance (unless knownBalance), getPurchaseCalldata, validateDate and the
\* dry-run return
purchaseCredits_prepare ==
    /\ Alive
    /\ op.purchase.st = "prepare"
    /\ \/ \E balance \in Balances :
            IF optionsDryRun(kind, dryRun)
            THEN /\ op' = [op EXCEPT !.purchase = PurchaseReturn(@)]
                 /\ hist' = [hist EXCEPT !.dryRan = TRUE]
            ELSE /\ op' = [op EXCEPT !.purchase =
                             [@ EXCEPT !.st = "price",
                                       !.balance = IF kind = "topup" THEN @
                                                   ELSE balance]]
                 /\ UNCHANGED hist
       \/ /\ op' = [op EXCEPT !.purchase = Fail(@, "Error")]
          /\ UNCHANGED hist
    /\ UNCHANGED <<kind, dryRun, running, dpc, consecutiveFailures, exitCode, state,
                   cpc, reads, gathered, cycleErr>>
    /\ UNCHANGED <<priceVars, retryVars, dispatchVars,
      calcVars, paceVars, metricVars>>

\* getEthPriceUsd, estimateEthRequired and the `balance < ethValue` check
purchaseCredits_price ==
    /\ Alive
    /\ op.purchase.st = "price"
    /\ \/ \E ethValue \in EthValues :
            op' = [op EXCEPT !.purchase =
                     IF BalanceShort(@.balance, ethValue)
                     THEN Shortfall(@, ethValue, @.balance)
                     ELSE [@ EXCEPT !.st = "gas", !.ethValue = ethValue,
                                    !.passed = @ \cup {"balance"}]]
       \/ op' = [op EXCEPT !.purchase = Fail(@, "Error")]
    /\ UNCHANGED <<kind, dryRun, running, dpc, consecutiveFailures, exitCode, state,
                   cpc, reads, gathered, cycleErr, hist>>
    /\ UNCHANGED <<priceVars, retryVars, dispatchVars,
      calcVars, paceVars, metricVars>>

\* getGasPrice and the ceiling check
purchaseCredits_gas ==
    /\ Alive
    /\ op.purchase.st = "gas"
    /\ \/ \E gasPrice \in GasPrices :
            op' = [op EXCEPT !.purchase =
                     IF AboveCeiling(gasPrice)
                     THEN Fail(@, "RecoverableError")
                     ELSE [@ EXCEPT !.st = "submit", !.attempt = 1,
                                    !.gasPrice = gasPrice,
                                    !.passed = @ \cup {"ceiling"}]]
       \/ op' = [op EXCEPT !.purchase = Fail(@, "Error")]
    /\ UNCHANGED <<kind, dryRun, running, dpc, consecutiveFailures, exitCode, state,
                   cpc, reads, gathered, cycleErr, hist>>
    /\ UNCHANGED <<priceVars, retryVars, dispatchVars,
      calcVars, paceVars, metricVars>>

\* one attempt of withRetry(simulateContract + writeContract, { retries: 2 })
purchaseCredits_submit ==
    /\ Alive
    /\ op.purchase.st = "submit"
    /\ \/ op' = [op EXCEPT !.purchase = Submitted(@)]
       \/ \E sent \in BOOLEAN : op' = [op EXCEPT !.purchase = SubmitRejected(@, sent)]
    /\ UNCHANGED <<kind, dryRun, running, dpc, consecutiveFailures, exitCode, state,
                   cpc, reads, gathered, cycleErr, hist>>
    /\ UNCHANGED <<priceVars, retryVars, dispatchVars,
      calcVars, paceVars, metricVars>>

\* waitForTransactionReceipt: success returns the hash, reverted throws
purchaseCredits_receipt ==
    /\ Alive
    /\ op.purchase.st = "receipt"
    /\ \/ \E status \in {"success", "reverted"} :
            op' = [op EXCEPT !.purchase =
                     IF status = "success" THEN PurchaseReturn(@)
                     ELSE Fail(@, "Error")]
       \/ op' = [op EXCEPT !.purchase = Fail(@, "Error")]
    /\ UNCHANGED <<kind, dryRun, running, dpc, consecutiveFailures, exitCode, state,
                   cpc, reads, gathered, cycleErr, hist>>
    /\ UNCHANGED <<priceVars, retryVars, dispatchVars,
      calcVars, paceVars, metricVars>>

(***************************************************************************)
(* runAutonomyCycle (autonomy-loop.ts)                                     *)
(***************************************************************************)
Pending == [r \in ReadNames |-> "pending"]
NoReads == [r \in ReadNames |-> "none"]

\* Promise.all rejects as soon as one of its promises has rejected
GatherFailedNever(rs) == FALSE
GatherFailed(rs) == \E r \in ReadNames : rs[r] = "rejected"
GatherSettled(rs) == \A r \in ReadNames : rs[r] # "pending"

\* `wethFeesFloat >= CONFIG.minWethForTopup && feeInfo.wethFees > 0n`
ClaimWantedAny(wethFees) == wethFees > 0
ClaimWanted(wethFees) == wethFees >= minWethForTopup /\ wethFees > 0

\* `await claimFees(...)`: the cycle resumes once the call has settled
AwaitClaimMissing(c) == TRUE
AwaitClaim(c) == Settled(c)

\* `await purchaseCredits(...)`
AwaitPurchase(p) == Settled(p)

\* `state.totalWethClaimed += ...`, `state.totalCreditsPurchased += ...`
AccumulateMinus(total, amount) == total - amount
Accumulate(total, amount) == total + amount

\* Step 3 and the summary: start the purchase or return
\* (position after the claim phase, given the credits gathered)
FundingCpc(available) == IF available < minCredits THEN "purchase" ELSE "returned"
FundingOp(o, available) ==
    IF available < minCredits
    THEN [o EXCEPT !.purchase = [NoPurchase EXCEPT !.st = "prepare"]]
    ELSE o

\* one of the three reads of Promise.all settles
Read ==
    /\ Alive
    /\ \E r \in ReadNames :
         /\ reads[r] = "pending"
         /\ \/ /\ reads' = [reads EXCEPT ![r] = "fulfilled"]
               /\ \/ r = "fees" /\ \E f \in FeeValues :
                                       gathered' = [gathered EXCEPT !.wethFees = f]
                  \/ r = "credits" /\ \E a \in CreditValues :
                                       gathered' = [gathered EXCEPT !.available = a]
                  \/ r = "agent" /\ UNCHANGED gathered
            \/ /\ reads' = [reads EXCEPT ![r] = "rejected"]
               /\ UNCHANGED gathered
    /\ UNCHANGED <<kind, dryRun, running, dpc, consecutiveFailures, exitCode, state,
                   cpc, op, cycleErr, hist>>
    /\ UNCHANGED <<priceVars, retryVars, dispatchVars,
      calcVars, paceVars, metricVars>>

\* Promise.all rejected: the cycle throws the read's error
GatherThrow ==
    /\ Alive
    /\ cpc = "gathering"
    /\ GatherFailed(reads)
    /\ cpc' = "threw"
    /\ cycleErr' = "Error"
    /\ UNCHANGED <<kind, dryRun, running, dpc, consecutiveFailures, exitCode, state,
                   reads, gathered, op, hist>>
    /\ UNCHANGED <<priceVars, retryVars, dispatchVars,
      calcVars, paceVars, metricVars>>

\* Promise.all fulfilled: lines 152-199 up to the next await
GatherDone ==
    /\ Alive
    /\ cpc = "gathering"
    /\ GatherSettled(reads) /\ ~GatherFailed(reads)
    /\ state' = [state EXCEPT !.lastFeeCheck = TRUE, !.lastCreditCheck = TRUE]
    /\ IF ClaimWanted(gathered.wethFees)
       THEN /\ cpc' = "claim"
            /\ op' = [op EXCEPT !.claim = [NoClaim EXCEPT !.st = "checkFees"]]
       ELSE /\ cpc' = FundingCpc(gathered.available)
            /\ op' = FundingOp(op, gathered.available)
    /\ UNCHANGED <<kind, dryRun, running, dpc, consecutiveFailures, exitCode,
                   reads, gathered, cycleErr, hist>>
    /\ UNCHANGED <<priceVars, retryVars, dispatchVars,
      calcVars, paceVars, metricVars>>

\* the claim settled: lines 166-199 up to the next await
ClaimDone ==
    /\ Alive
    /\ kind = "autonomy"
    /\ cpc = "claim"
    /\ AwaitClaim(op.claim)
    /\ IF op.claim.st = "failed" /\ ~isRecoverable(op.claim.err)
       THEN /\ cpc' = "threw"
            /\ cycleErr' = op.claim.err
            /\ UNCHANGED <<state, op>>
       ELSE /\ state' = [state EXCEPT !.totalWethClaimed =
                           IF op.claim.st = "done" /\ op.claim.wethClaimed > 0
                           THEN Accumulate(@, op.claim.wethClaimed) ELSE @]
            /\ cpc' = FundingCpc(gathered.available)
            /\ op' = FundingOp([op EXCEPT !.claim = Consumed(@)], gathered.available)
            /\ UNCHANGED cycleErr
    /\ UNCHANGED <<kind, dryRun, running, dpc, consecutiveFailures, exitCode,
                   reads, gathered, hist>>
    /\ UNCHANGED <<priceVars, retryVars, dispatchVars,
      calcVars, paceVars, metricVars>>

\* the purchase settled: lines 187-209
PurchaseDone ==
    /\ Alive
    /\ kind = "autonomy"
    /\ cpc = "purchase"
    /\ AwaitPurchase(op.purchase)
    /\ IF op.purchase.st = "failed" /\ ~isRecoverable(op.purchase.err)
       THEN /\ cpc' = "threw"
            /\ cycleErr' = op.purchase.err
            /\ UNCHANGED state
       ELSE /\ state' = [state EXCEPT !.totalCreditsPurchased =
                           IF op.purchase.st = "done"
                           THEN Accumulate(@, creditPurchaseAmount) ELSE @]
            /\ cpc' = "returned"
            /\ UNCHANGED cycleErr
    /\ UNCHANGED <<kind, dryRun, running, dpc, consecutiveFailures, exitCode,
                   reads, gathered, op, hist>>
    /\ UNCHANGED <<priceVars, retryVars, dispatchVars,
      calcVars, paceVars, metricVars>>

(***************************************************************************)
(* runTopupCheck (auto-topup.ts)                                           *)
(***************************************************************************)

\* `await checkCredits()` and the healthy-balance return
topup_credits ==
    /\ Alive
    /\ kind = "topup"
    /\ cpc = "credits"
    /\ \/ \E a \in CreditValues :
            /\ gathered' = [gathered EXCEPT !.available = a]
            /\ cpc' = IF a >= minBalance THEN "returned" ELSE "wallet"
            /\ UNCHANGED cycleErr
       \/ /\ cpc' = "threw"
          /\ cycleErr' = "Error"
          /\ UNCHANGED gathered
    /\ UNCHANGED <<kind, dryRun, running, dpc, consecutiveFailures, exitCode, state,
                   reads, op, hist>>
    /\ UNCHANGED <<priceVars, retryVars, dispatchVars,
      calcVars, paceVars, metricVars>>

\* `await checkWalletBalance()`, the ETH check, dry run, start of the purchase
topup_wallet ==
    /\ Alive
    /\ kind = "topup"
    /\ cpc = "wallet"
    /\ \/ \E ethBalance \in Balances :
            IF ethBalance < maxEthPerTopup
            THEN /\ cpc' = "threw"
                 /\ cycleErr' = "RecoverableError"
                 /\ UNCHANGED <<op, hist>>
            ELSE IF dryRun
            THEN /\ cpc' = "returned"
                 /\ hist' = [hist EXCEPT !.dryRan = TRUE]
                 /\ UNCHANGED <<op, cycleErr>>
            ELSE /\ cpc' = "purchase"
                 /\ op' = [op EXCEPT !.purchase =
                             [NoPurchase EXCEPT !.st = "prepare", !.balance = ethBalance]]
                 /\ UNCHANGED <<cycleErr, hist>>
       \/ /\ cpc' = "threw"
          /\ cycleErr' = "Error"
          /\ UNCHANGED <<op, hist>>
    /\ UNCHANGED <<kind, dryRun, running, dpc, consecutiveFailures, exitCode, state,
                   reads, gathered>>
    /\ UNCHANGED <<priceVars, retryVars, dispatchVars,
      calcVars, paceVars, metricVars>>

\* `await purchaseCredits(...)` settled: an error propagates
topup_purchased ==
    /\ Alive
    /\ kind = "topup"
    /\ cpc = "purchase"
    /\ AwaitPurchase(op.purchase)
    /\ IF op.purchase.st = "failed"
       THEN /\ cpc' = "threw"
            /\ cycleErr' = op.purchase.err
       ELSE /\ cpc' = "credits2"
            /\ UNCHANGED cycleErr
    /\ UNCHANGED <<kind, dryRun, running, dpc, consecutiveFailures, exitCode, state,
                   reads, gathered, op, hist>>
    /\ UNCHANGED <<priceVars, retryVars, dispatchVars,
      calcVars, paceVars, metricVars>>

\* the second `await checkCredits()` and the return
topup_credits2 ==
    /\ Alive
    /\ kind = "topup"
    /\ cpc = "credits2"
    /\ \/ /\ cpc' = "returned"
          /\ UNCHANGED cycleErr
       \/ /\ cpc' = "threw"
          /\ cycleErr' = "Error"
    /\ UNCHANGED <<kind, dryRun, running, dpc, consecutiveFailures, exitCode, state,
                   reads, gathered, op, hist>>
    /\ UNCHANGED <<priceVars, retryVars, dispatchVars,
      calcVars, paceVars, metricVars>>

(***************************************************************************)
(* runDaemon (autonomy-loop.ts lines 225-270, auto-topup.ts lines 228-271) *)
(***************************************************************************)

\* `while (running)`
LoopCondAlways(r) == TRUE
LoopCond(r) == r

\* `await runAutonomyCycle()` / `await runTopupCheck(config)`
CycleSettled(c) == c \in {"returned", "threw"}

\* `consecutiveFailures = 0` after a cycle that returned
OnSuccessKeep(cf) == cf
OnSuccess(cf) == 0

\* `consecutiveFailures++` in the catch block, before the error is classified
OnFailure(cf, err) == cf + 1

\* `consecutiveFailures >= MAX_CONSECUTIVE_FAILURES`
ShouldExitAbove(cf) == cf > MAX_CONSECUTIVE_FAILURES
ShouldExit(cf) == cf >= MAX_CONSECUTIVE_FAILURES

\* `if (!running) break;`
BreakCheckMissing(r) == FALSE
BreakCheck(r) == ~r

HistInit ==
    [started           |-> 0,       \* cycles started
     succeeded         |-> FALSE,   \* some cycle returned
     failed            |-> FALSE,   \* some cycle threw
     fatal             |-> FALSE,   \* some cycle threw an error that is not Recoverable
     streak            |-> 0,       \* cycles that threw since the last one that returned
     startedAfterSignal |-> 0,      \* cycles started after running was cleared
     sleepsAfterSignal |-> 0,       \* sleeps started after running was cleared
     signalAt          |-> "none",  \* where runDaemon was when the signal arrived
     overlap           |-> FALSE,   \* a cycle started while another was in flight
     dryRan            |-> FALSE,   \* a call logged DRY RUN and returned
     wethBefore        |-> 0,       \* totalWethClaimed when the cycle started
     creditsBefore     |-> 0]       \* totalCreditsPurchased when the cycle started

\* SIGINT / SIGTERM handler
Signal ==
    /\ Alive
    /\ dpc # "stopped"
    /\ running
    /\ \E sig \in {"SIGINT", "SIGTERM"} : running' = FALSE
    /\ hist' = [hist EXCEPT !.signalAt = IF dpc = "cycle" /\ CycleSettled(cpc)
                                          THEN "settled" ELSE dpc]
    /\ UNCHANGED <<kind, dryRun, dpc, consecutiveFailures, exitCode, state,
                   cpc, reads, gathered, op, cycleErr>>
    /\ UNCHANGED <<priceVars, retryVars, dispatchVars,
      calcVars, paceVars, metricVars>>

\* the loop test; when it passes, the cycle runs up to its first await
DaemonLoop ==
    /\ Alive
    /\ dpc = "while"
    /\ IF LoopCond(running)
       THEN /\ hist.started < MaxCycles
            /\ dpc' = "cycle"
            /\ cycleErr' = "none"
            /\ op' = NoOp
            /\ gathered' = [wethFees |-> 0, available |-> 0]
            /\ IF kind = "autonomy"
               THEN /\ state' = [state EXCEPT !.cycleCount = @ + 1]
                    /\ reads' = Pending
                    /\ cpc' = "gathering"
               ELSE /\ cpc' = "credits"
                    /\ UNCHANGED <<state, reads>>
            /\ hist' = [hist EXCEPT
                          !.started = @ + 1,
                          !.wethBefore = state.totalWethClaimed,
                          !.creditsBefore = state.totalCreditsPurchased,
                          !.startedAfterSignal = IF running THEN @ ELSE @ + 1,
                          !.overlap = @ \/ cpc \notin {"idle", "returned", "threw"}
                                        \/ InFlight(op.claim) \/ InFlight(op.purchase)]
            /\ UNCHANGED exitCode
       ELSE /\ dpc' = "stopped"
            /\ exitCode' = 0
            /\ UNCHANGED <<state, cpc, reads, gathered, op, cycleErr, hist>>
    /\ UNCHANGED <<kind, dryRun, running, consecutiveFailures>>
    /\ UNCHANGED <<priceVars, retryVars, dispatchVars,
      calcVars, paceVars, metricVars>>

\* the cycle settled: the try/catch, the exit, the break and the wait (lines 240-266)
DaemonAfterCycle ==
    /\ Alive
    /\ dpc = "cycle"
    /\ CycleSettled(cpc)
    /\ LET ok  == cpc = "returned"
           cf  == IF ok THEN OnSuccess(consecutiveFailures)
                  ELSE OnFailure(consecutiveFailures, cycleErr)
           h0  == [hist EXCEPT !.wethBefore = state.totalWethClaimed,
                               !.creditsBefore = state.totalCreditsPurchased]
           h1  == IF ok
                  THEN [h0 EXCEPT !.succeeded = TRUE, !.streak = 0]
                  ELSE [h0 EXCEPT !.failed = TRUE, !.streak = @ + 1,
                                  !.fatal = @ \/ ~isRecoverable(cycleErr)]
       IN
       /\ consecutiveFailures' = cf
       /\ cpc' = "idle"
       /\ IF ~ok /\ ShouldExit(cf)
          THEN /\ dpc' = "exited"
               /\ exitCode' = 1
               /\ hist' = h1
          ELSE IF BreakCheck(running)
          THEN /\ dpc' = "stopped"
               /\ exitCode' = 0
               /\ hist' = h1
          ELSE /\ \E remainingWait \in {0, 1} :
                    IF remainingWait > 0
                    THEN /\ dpc' = "sleep"
                         /\ hist' = [h1 EXCEPT !.sleepsAfterSignal =
                                        IF running THEN @ ELSE @ + 1]
                    ELSE /\ dpc' = "while"
                         /\ hist' = h1
               /\ UNCHANGED exitCode
    \* the settled cycle's promise and its locals are dropped
    /\ reads' = NoReads
    /\ gathered' = [wethFees |-> 0, available |-> 0]
    /\ op' = NoOp
    /\ cycleErr' = "none"
    /\ UNCHANGED <<kind, dryRun, running, state>>
    /\ UNCHANGED <<priceVars, retryVars, dispatchVars,
      calcVars, paceVars, metricVars>>

\* the setTimeout of the wait fires
SleepDone ==
    /\ Alive
    /\ dpc = "sleep"
    /\ dpc' = "while"
    /\ UNCHANGED <<kind, dryRun, running, consecutiveFailures, exitCode, state,
                   cpc, reads, gathered, op, cycleErr, hist>>
    /\ UNCHANGED <<priceVars, retryVars, dispatchVars,
      calcVars, paceVars, metricVars>>

\* the steps of a cycle and of the calls it makes
CycleSteps ==
    \/ Read
    \/ GatherThrow
    \/ GatherDone
    \/ ClaimDone
    \/ PurchaseDone
    \/ claimFees_checkFees
    \/ claimFees_preflight
    \/ claimFees_submit
    \/ claimFees_receipt
    \/ purchaseCredits_prepare
    \/ purchaseCredits_price
    \/ purchaseCredits_gas
    \/ purchaseCredits_submit
    \/ purchaseCredits_receipt
    \/ topup_credits
    \/ topup_wallet
    \/ topup_purchased
    \/ topup_credits2

DaemonSteps ==
    \/ DaemonLoop
    \/ DaemonAfterCycle
    \/ SleepDone
    \/ CycleSteps

(***************************************************************************)
(* lib/retry: withRetry(fn, options)                                       *)
(***************************************************************************)
\* what fn may reject with: an Error, an error of one of the tagged classes,
\* or a value that is not an Error
ErrorValues == {"Error", "RecoverableError", "NonRetryableError", "string"}

\* RetryOptions; `retries` is any number the caller passes, -1 included
RetriesValues  == -1 .. MaxRetries
DelayValues    == {5, 1000}
BackoffValues  == {1, 2}
MaxDelayValues == {2000, 30000}
OnRetryValues  == {"absent", "returns", "throws"}

\* `new Error('No attempts made')`
NoAttempts == [cls |-> "Error", by |-> 0, wrapped |-> FALSE]
\* the error of the onRetry callback
ObserverError == [cls |-> "Error", by |-> -1, wrapped |-> FALSE]

\* `error instanceof Error ? error : new Error(String(error))`, for the value
\* thrown by invocation number `by`
AsError(v, by) == [cls |-> IF v = "string" THEN "Error" ELSE v,
                   by |-> by, wrapped |-> v = "string"]

\* `attempt <= retries + 1`
LoopTest(attempt, retries) == attempt <= retries + 1

\* `if (attempt > retries) break;`: the only test made on a failed attempt;
\* the class of the error is not looked at
GiveUp(attempt, retries, err) == attempt > retries

\* `Math.min(delayMs * Math.pow(backoff, attempt - 1), maxDelayMs)`
Min(a, b) == IF a < b THEN a ELSE b
DelayOffByOne(delayMs, backoff, attempt, maxDelayMs) ==
    Min(delayMs * backoff ^ attempt, maxDelayMs)
DelayFlat(delayMs, backoff, attempt, maxDelayMs) ==
    Min(delayMs, maxDelayMs)
Delay(delayMs, backoff, attempt, maxDelayMs) ==
    Min(delayMs * backoff ^ (attempt - 1), maxDelayMs)

\* no withRetry call
Retry0 == [pc |-> "none", retries |-> 0, delayMs |-> 0, backoff |-> 0,
           maxDelayMs |-> 0, onRetry |-> "absent", attempt |-> 0,
           invocations |-> 0, lastError |-> NoAttempts, thrown |-> <<>>,
           result |-> 0, slept |-> <<>>, observed |-> <<>>, statuses |-> <<>>]

\* the loop test and, when it passes, the call of fn
LoopStepTwice(r) ==
    IF LoopTest(r.attempt, r.retries)
    THEN [r EXCEPT !.pc = "call", !.invocations = @ + 2]
    ELSE [r EXCEPT !.pc = "threw", !.thrown = <<r.lastError>>]
LoopStep(r) ==
    IF LoopTest(r.attempt, r.retries)
    THEN [r EXCEPT !.pc = "call", !.invocations = @ + 1]
    ELSE [r EXCEPT !.pc = "threw", !.thrown = <<r.lastError>>]

\* withRetry is entered: lines 27-39 up to the await of fn()
withRetry_enter ==
    /\ rt.pc = "entry"
    /\ rt' = LoopStep([rt EXCEPT !.attempt = 1])
    /\ UNCHANGED <<priceVars, daemonVars, dispatchVars,
      calcVars, paceVars, metricVars>>

\* fn() resolves: withRetry returns its value
withRetry_resolve ==
    /\ rt.pc = "call"
    /\ rt' = [rt EXCEPT !.pc = "returned", !.result = rt.invocations]
    /\ UNCHANGED <<priceVars, daemonVars, dispatchVars,
      calcVars, paceVars, metricVars>>

\* the catch block, lines 40-55, up to the await of the timer, when fn()
\* rejected with v
Caught(r, v) ==
    LET err   == AsError(v, r.invocations)
        delay == Delay(r.delayMs, r.backoff, r.attempt, r.maxDelayMs)
        r1    == [r EXCEPT !.lastError = err]
    IN
    IF GiveUp(r.attempt, r.retries, err)
    THEN [r1 EXCEPT !.pc = "threw", !.thrown = <<err>>]
    ELSE IF r.onRetry = "absent"
    THEN [r1 EXCEPT !.pc = "sleep", !.slept = Append(@, delay)]
    ELSE IF r.onRetry = "throws"
    THEN [r1 EXCEPT !.pc = "threw", !.thrown = <<ObserverError>>,
                    !.observed = Append(@, <<err, r.attempt>>)]
    ELSE [r1 EXCEPT !.pc = "sleep", !.slept = Append(@, delay),
                    !.observed = Append(@, <<err, r.attempt>>)]

\* fn() rejects
withRetry_reject ==
    /\ rt.pc = "call"
    /\ \E v \in ErrorValues : rt' = Caught(rt, v)
    /\ UNCHANGED <<priceVars, daemonVars, dispatchVars,
      calcVars, paceVars, metricVars>>

\* the timer fires: attempt++, the loop test and the next call of fn
withRetry_wake ==
    /\ rt.pc = "sleep"
    /\ rt' = LoopStep([rt EXCEPT !.attempt = @ + 1])
    /\ UNCHANGED <<priceVars, daemonVars, dispatchVars,
      calcVars, paceVars, metricVars>>

RetryNext ==
    \/ withRetry_enter
    \/ withRetry_resolve
    \/ withRetry_reject
    \/ withRetry_wake

(***************************************************************************)
(* lib/retry: fetchWithRetry(url, options, retryOptions)                   *)
(***************************************************************************)
\* what one fetch(url, options) gives: 0 when the request itself rejects (a
\* network failure), else the status of the response
NetworkFailure == 0
FetchOutcomes == {NetworkFailure, 200, 400, 401, 503}

\* `response.ok`
ResponseOk(status) == status >= 200 /\ status <= 299
\* `response.status >= 500`: the "Server error" message, else "HTTP"
IsServerError(status) == status >= 500
IsClientError(status) == status >= 400 /\ status <= 499

\* the function fetchWithRetry hands to withRetry, for one outcome of fetch:
\* the body of an ok response is returned, every other outcome is thrown as a
\* plain Error whose message carries the status
fetchFn(r, outcome) ==
    LET r1 == [r EXCEPT !.statuses = Append(@, outcome)] IN
    IF outcome # NetworkFailure /\ ResponseOk(outcome)
    THEN [r1 EXCEPT !.pc = "returned", !.result = r.invocations]
    ELSE Caught(r1, "Error")

\* one call of fetch settles
fetchWithRetry_fn ==
    /\ rt.pc = "call"
    /\ \E outcome \in FetchOutcomes : rt' = fetchFn(rt, outcome)
    /\ UNCHANGED <<priceVars, daemonVars, dispatchVars,
      calcVars, paceVars, metricVars>>

\* the onRetry that fetchWithRetry passes logs and calls retryOptions.onRetry
\* when there is one: towards the loop it behaves as retryOptions.onRetry does
FetchNext ==
    \/ withRetry_enter
    \/ fetchWithRetry_fn
    \/ withRetry_wake

(***************************************************************************)
(* coordination/task-dispatcher: TIERS, getAgentInfo, dispatchTask         *)
(***************************************************************************)
\* `parseUnits(value, decimals)`: the amount in base units.  The token has 18
\* decimals; the model gives it TokenDecimals so that the amounts fit a TLC
\* integer (balances are only compared, never scaled back)
TokenDecimals == 1
parseUnits(value, decimals) == value * 10 ^ decimals

\* `quota: Infinity`
Infinity == 2147483647

\* the TIERS object, its properties in the order of their declaration
TIERS ==
    << [key |-> "FREE", threshold |-> 0, quota |-> 10, name |-> "Free"],
       [key |-> "BASIC", threshold |-> parseUnits(10000, TokenDecimals),
        quota |-> 100, name |-> "Basic (10K)"],
       [key |-> "PRO", threshold |-> parseUnits(100000, TokenDecimals),
        quota |-> 1000, name |-> "Pro (100K)"],
       [key |-> "UNLIMITED", threshold |-> parseUnits(1000000, TokenDecimals),
        quota |-> Infinity, name |-> "Unlimited (1M)"] >>

TierSet == {TIERS[i] : i \in DOMAIN TIERS}

\* the same properties declared in another order
Reorderings ==
    {t \in [DOMAIN TIERS -> TierSet] : \A i, j \in DOMAIN TIERS : t[i] = t[j] => i = j}

\* `TIERS.FREE`, `TIERS.BASIC`, ...: a property is read by its key
TierAtPosition(table, key) ==
    table[CHOOSE i \in DOMAIN TIERS : TIERS[i].key = key]
Tier(table, key) ==
    table[CHOOSE i \in DOMAIN table : table[i].key = key]

\* `balance >= TIERS.X.threshold`
ReachesAbove(balance, threshold) == balance > threshold
ReachesBelow(balance, threshold) == balance <= threshold
Reaches(balance, threshold) == balance >= threshold

\* lines 93-100: the tier of a balance
TierOfSkippingPro(table, balance) ==
    IF Reaches(balance, Tier(table, "UNLIMITED").threshold)
    THEN Tier(table, "UNLIMITED")
    ELSE IF Reaches(balance, Tier(table, "BASIC").threshold)
    THEN Tier(table, "BASIC")
    ELSE Tier(table, "FREE")
TierOf(table, balance) ==
    IF Reaches(balance, Tier(table, "UNLIMITED").threshold)
    THEN Tier(table, "UNLIMITED")
    ELSE IF Reaches(balance, Tier(table, "PRO").threshold)
    THEN Tier(table, "PRO")
    ELSE IF Reaches(balance, Tier(table, "BASIC").threshold)
    THEN Tier(table, "BASIC")
    ELSE Tier(table, "FREE")

\* the AgentInfo getAgentInfo returns: balance, tier.name, tier.quota
AgentInfo(table, balance) ==
    [balance |-> balance, tier |-> TierOf(table, balance).name,
     dailyQuota |-> TierOf(table, balance).quota]
NoInfo == [balance |-> -1, tier |-> "none", dailyQuota |-> 0]

Wallets == {"a", "b"}

\* balanceOf answers: nothing, one base unit, around each threshold, far above
BalanceValues ==
    {0, 1, parseUnits(10000000, TokenDecimals)}
        \cup UNION {{t.threshold - 1, t.threshold, t.threshold + 1} :
                        t \in {u \in TierSet : u.threshold > 0}}
\* the balances of the wallets that dispatch tasks: a Free and a Basic holder
DispatchBalances == {0, parseUnits(10000, TokenDecimals)}

\* no wallet known, no task dispatched
Td0 == [table     |-> TIERS,
        balance   |-> [w \in Wallets |-> 0],
        info      |-> [w \in Wallets |-> NoInfo],   \* last AgentInfo returned
        started   |-> 0,                            \* dispatchTask calls so far
        awaitInfo |-> [w \in Wallets |-> 0],        \* tasks awaiting getAgentInfo
        awaitGateway |-> [w \in Wallets |-> 0],     \* tasks awaiting the gateway
        forwarded |-> [w \in Wallets |-> 0],        \* POSTs sent to the gateway
        last      |-> "none"]                       \* the last TaskResult: "success" | "failed"

\* getAgentInfo(wallet): balanceOf resolves and the tier is determined
getAgentInfo ==
    /\ \E w \in Wallets :
         /\ td.info[w] = NoInfo
         /\ td' = [td EXCEPT !.info[w] = AgentInfo(td.table, td.balance[w])]
    /\ UNCHANGED <<priceVars, daemonVars, retryVars,
      calcVars, paceVars, metricVars>>

\* dispatchTask(request) up to `await getAgentInfo(request.agentWallet)`;
\* batchDispatch starts the tasks one after the other or all at once
dispatchTask_call ==
    /\ td.started < MaxTasks
    /\ \E w \in Wallets :
         td' = [td EXCEPT !.started = @ + 1, !.awaitInfo[w] = @ + 1]
    /\ UNCHANGED <<priceVars, daemonVars, retryVars,
      calcVars, paceVars, metricVars>>

\* getAgentInfo settles: on a result the task is posted to the gateway (lines
\* 121-133), on a rejection the catch block returns a failure
dispatchTask_info ==
    /\ \E w \in Wallets :
         /\ td.awaitInfo[w] > 0
         /\ \/ td' = [td EXCEPT !.awaitInfo[w] = @ - 1,
                                !.info[w] = AgentInfo(td.table, td.balance[w]),
                                !.awaitGateway[w] = @ + 1,
                                !.forwarded[w] = @ + 1]
            \/ td' = [td EXCEPT !.awaitInfo[w] = @ - 1, !.last = "failed"]
    /\ UNCHANGED <<priceVars, daemonVars, retryVars,
      calcVars, paceVars, metricVars>>

\* the gateway answers (ok or not) or the request fails: lines 135-164
dispatchTask_gateway ==
    /\ \E w \in Wallets :
         /\ td.awaitGateway[w] > 0
         /\ \E outcome \in {"ok", "not ok", "rejected"} :
              td' = [td EXCEPT !.awaitGateway[w] = @ - 1,
                               !.last = IF outcome = "ok" THEN "success"
                                        ELSE "failed"]
    /\ UNCHANGED <<priceVars, daemonVars, retryVars,
      calcVars, paceVars, metricVars>>

TierNext == getAgentInfo

DispatchNext ==
    \/ dispatchTask_call
    \/ dispatchTask_info
    \/ dispatchTask_gateway

(***************************************************************************)
(* calculateEthForUsd (lib/price).  The dollar price is in cents; the      *)
(* doubles of the code are the rationals they stand for.  An ETH amount    *)
(* has EtherDecimals decimals, 8 here for the 18 of viem, so one millionth *)
(* of an ETH is 10^2 of the smallest unit where the code has 10^12 wei.    *)
(***************************************************************************)
EtherDecimals == 8
FixedDigits == 6                    \* ethNeeded.toFixed(6)

UsdValues    == 1 .. 10             \* usdAmount, in dollars
BufferValues == {0, 5, 10, 20}      \* bufferPercent
CentValues   == {199937, 250000, 320000, 333333, 400001}    \* price, in cents

\* num / den truncated to `digits` decimals, as a count of 10^-digits
Truncated(num, den, digits) == (num * 10 ^ digits) \div den

\* (num / den).toFixed(digits): the nearest count of 10^-digits, the larger
\* one on a tie
toFixed(num, den, digits) ==
    LET n == (num * 10 ^ digits) \div den
        r == (num * 10 ^ digits) % den
    IN  IF 2 * r >= den THEN n + 1 ELSE n

\* parseEther of a decimal string with `digits` decimals
parseEther(count, digits) == count * 10 ^ (EtherDecimals - digits)

\* usdAmount * (1 + bufferPercent / 100) / price as the fraction
\* usdAmount * (100 + bufferPercent) / cents
EthNeededNum(usdAmount, bufferPercent) == usdAmount * (100 + bufferPercent)

calculateEthForUsdTruncating(usdAmount, bufferPercent, cents) ==
    parseEther(Truncated(EthNeededNum(usdAmount, bufferPercent), cents, FixedDigits),
               FixedDigits)

calculateEthForUsd(usdAmount, bufferPercent, cents) ==
    parseEther(toFixed(EthNeededNum(usdAmount, bufferPercent), cents, FixedDigits),
               FixedDigits)

Quote0 == [pc |-> "none", usdAmount |-> 0, bufferPercent |-> 0, price |-> 0,
           result |-> 0]

\* one call of calculateEthForUsd: getEthPriceUsd answers with a price or
\* throws, and the throw is the caller's
calculateEthForUsd_call ==
    /\ \E usdAmount \in UsdValues, bufferPercent \in BufferValues :
         \/ \E cents \in CentValues :
              quote' = [pc |-> "returned", usdAmount |-> usdAmount,
                        bufferPercent |-> bufferPercent, price |-> cents,
                        result |-> calculateEthForUsd(usdAmount, bufferPercent, cents)]
         \/ quote' = [Quote0 EXCEPT !.pc = "threw", !.usdAmount = usdAmount,
                                    !.bufferPercent = bufferPercent]
    /\ UNCHANGED <<priceVars, daemonVars, retryVars, dispatchVars, paceVars,
                   metricVars>>

CalcNext == calculateEthForUsd_call

(***************************************************************************)
(* The schedule of runDaemon (autonomy-loop.ts 237-267): the cycle is one  *)
(* step that takes some time and returns or throws; the two Date.now()     *)
(* reads are the only places the clock is looked at, and a timer fires     *)
(* when it is due.  Time is in minutes here.                               *)
(***************************************************************************)
MaxStarts == 5                      \* cycles started in one run
IntervalValues == {0, 2, 5}         \* CONFIG.checkInterval (5 is the default)
DurationValues == {0, 1, 2, 5, 7}   \* what one cycle takes

Max(a, b) == IF a > b THEN a ELSE b

\* the sleep where the interval runs from the end of the cycle
RemainingWaitFromEnd(checkInterval, cycleDuration) == Max(0, checkInterval)

\* Math.max(0, CONFIG.checkInterval - cycleDuration)
RemainingWait(checkInterval, cycleDuration) ==
    Max(0, checkInterval - cycleDuration)

Pace0 == [pc |-> "while", checkInterval |-> 5, clock |-> 0, running |-> TRUE,
          starts |-> 0, cycleStart |-> 0, previousStart |-> 0,
          cycleDuration |-> 0, remainingWait |-> 0, slept |-> FALSE,
          consecutiveFailures |-> 0]

\* `while (running) { const cycleStart = Date.now(); ...`
runDaemon_cycleStart ==
    /\ pace.pc = "while"
    /\ IF pace.running
       THEN /\ pace.starts < MaxStarts
            /\ pace' = [pace EXCEPT !.pc = "cycle", !.starts = @ + 1,
                                    !.cycleStart = pace.clock,
                                    !.previousStart = pace.cycleStart]
       ELSE pace' = [pace EXCEPT !.pc = "stopped"]
    /\ UNCHANGED <<priceVars, daemonVars, retryVars, dispatchVars, calcVars,
                   metricVars>>

\* runAutonomyCycle settles after `duration`; the failure count, the
\* `if (!running) break` and the computation of the sleep follow
runDaemon_cycleEnd ==
    /\ pace.pc = "cycle"
    /\ \E duration \in DurationValues, threw \in BOOLEAN :
         LET failures == IF threw THEN pace.consecutiveFailures + 1 ELSE 0
             cycleDuration == (pace.clock + duration) - pace.cycleStart
             remainingWait == RemainingWait(pace.checkInterval, cycleDuration)
             p == [pace EXCEPT !.clock = @ + duration,
                               !.consecutiveFailures = failures,
                               !.slept = FALSE]
         IN  pace' = IF ShouldExit(failures)
                        THEN [p EXCEPT !.pc = "exited"]
                     ELSE IF ~pace.running
                        THEN [p EXCEPT !.pc = "stopped"]
                     ELSE [p EXCEPT !.cycleDuration = cycleDuration,
                                    !.remainingWait = remainingWait,
                                    !.pc = IF remainingWait > 0 THEN "sleep"
                                           ELSE "while"]
    /\ UNCHANGED <<priceVars, daemonVars, retryVars, dispatchVars, calcVars,
                   metricVars>>

\* the timer of `setTimeout(resolve, remainingWait)` fires
runDaemon_wake ==
    /\ pace.pc = "sleep"
    /\ pace' = [pace EXCEPT !.pc = "while", !.clock = @ + pace.remainingWait,
                            !.slept = TRUE]
    /\ UNCHANGED <<priceVars, daemonVars, retryVars, dispatchVars, calcVars,
                   metricVars>>

\* SIGINT / SIGTERM: `running = false`
runDaemon_signal ==
    /\ pace.running
    /\ pace.pc \in {"while", "cycle", "sleep"}
    /\ pace' = [pace EXCEPT !.running = FALSE]
    /\ UNCHANGED <<priceVars, daemonVars, retryVars, dispatchVars, calcVars,
                   metricVars>>

PaceNext ==
    \/ runDaemon_cycleStart
    \/ runDaemon_cycleEnd
    \/ runDaemon_wake
    \/ runDaemon_signal

(***************************************************************************)
(* lib/metrics (part_006): the `handlers` array, the counter of one event  *)
(* and one emit() at a time.  A handler is any function: when invoked it   *)
(* returns or throws, and before that it may register a handler or call    *)
(* an unregister function.  An unregister function keeps only its handler  *)
(* (lines 60-63), so two of them for the same handler act alike; `live`    *)
(* counts those not yet called, `spent` tells whether one was called.      *)
(***************************************************************************)
MaxRegistrations == 3               \* registerMetricHandler calls in one run
MaxEvents == 2                      \* emit calls in one run

HandlerIds == {"a", "b", "c"}

\* handlers.indexOf(handler), 0 for the -1 of the code
IndexOf(seq, h) ==
    IF \E k \in 1 .. Len(seq) : seq[k] = h
    THEN CHOOSE k \in 1 .. Len(seq) : seq[k] = h /\ \A j \in 1 .. k - 1 : seq[j] # h
    ELSE 0

\* handlers.splice(index, 1)
Splice(seq, index) ==
    [k \in 1 .. Len(seq) - 1 |-> IF k < index THEN seq[k] ELSE seq[k + 1]]

Count(seq, h) == Cardinality({k \in 1 .. Len(seq) : seq[k] = h})

NoneInvoked == [h \in HandlerIds |-> 0]

Mx0 == [handlers |-> <<>>, counter |-> 0, registrations |-> 0,
        live |-> [h \in HandlerIds |-> 0], spent |-> [h \in HandlerIds |-> FALSE],
        pc |-> "idle", next |-> 1,
        \* observation of the emission in progress, or of the last one
        atStart |-> NoneInvoked, liveAtStart |-> NoneInvoked,
        invoked |-> NoneInvoked,
        unregistered |-> {}, registered |-> {}, revoked |-> FALSE,
        threw |-> FALSE]

\* registerMetricHandler(handler): push, and return the unregister function
Register(m, h) ==
    [m EXCEPT !.handlers = Append(@, h), !.registrations = @ + 1,
              !.live[h] = @ + 1,
              !.registered = IF m.pc = "emit" THEN @ \cup {h} ELSE @]

\* the unregister function of `h`: indexOf, then splice when found; `again`
\* tells a call of a function that was called before
Unregister(m, h, again) ==
    LET index == IndexOf(m.handlers, h) IN
    [m EXCEPT !.handlers = IF index > 0 THEN Splice(@, index) ELSE @,
              !.live[h] = IF again THEN @ ELSE @ - 1,
              !.spent[h] = TRUE,
              !.unregistered = IF m.pc = "emit" THEN @ \cup {h} ELSE @]

CanRegister(m) == m.registrations < MaxRegistrations
CanUnregister(m, h, again) == IF again THEN m.spent[h] ELSE m.live[h] > 0

\* `try { handler(metric) } catch (e) { console.error(...) }`, and the
\* iterator of the for-of moves to the next index
Deliver(m, threw) ==
    [m EXCEPT !.next = @ + 1, !.threw = @ \/ threw]

registerMetricHandler ==
    /\ mx.pc = "idle"
    /\ CanRegister(mx)
    /\ \E h \in HandlerIds : mx' = Register(mx, h)
    /\ UNCHANGED <<priceVars, daemonVars, retryVars, dispatchVars, calcVars,
                   paceVars>>

unregister ==
    /\ mx.pc = "idle"
    /\ \E h \in HandlerIds, again \in BOOLEAN :
         /\ CanUnregister(mx, h, again)
         /\ mx' = Unregister(mx, h, again)
    /\ UNCHANGED <<priceVars, daemonVars, retryVars, dispatchVars, calcVars,
                   paceVars>>

\* emit(event) up to the loop: the counter is incremented (line 79)
emit_begin ==
    /\ mx.pc = "idle"
    /\ mx.counter < MaxEvents
    /\ mx' = [mx EXCEPT !.pc = "emit", !.next = 1, !.counter = @ + 1,
                        !.atStart = [h \in HandlerIds |-> Count(mx.handlers, h)],
                        !.liveAtStart = mx.live,
                        !.revoked = \E h \in HandlerIds : mx.spent[h],
                        !.invoked = NoneInvoked,
                        !.unregistered = {}, !.registered = {},
                        !.threw = FALSE]
    /\ UNCHANGED <<priceVars, daemonVars, retryVars, dispatchVars, calcVars,
                   paceVars>>

\* one turn of `for (const handler of handlers)`: the array is read at the
\* iterator's index as it is now; the handler runs, with what it does to the
\* array, and returns or throws
emit_handler ==
    /\ mx.pc = "emit"
    /\ mx.next <= Len(mx.handlers)
    /\ LET h == mx.handlers[mx.next]
           m == [mx EXCEPT !.invoked[h] = @ + 1]
       IN  \E threw \in BOOLEAN :
             \/ mx' = Deliver(m, threw)
             \/ /\ CanRegister(m)
                /\ \E g \in HandlerIds : mx' = Deliver(Register(m, g), threw)
             \/ \E g \in HandlerIds, again \in BOOLEAN :
                  /\ CanUnregister(m, g, again)
                  /\ mx' = Deliver(Unregister(m, g, again), threw)
    /\ UNCHANGED <<priceVars, daemonVars, retryVars, dispatchVars, calcVars,
                   paceVars>>

\* the iterator is past the end of the array: emit returns
emit_end ==
    /\ mx.pc = "emit"
    /\ mx.next > Len(mx.handlers)
    /\ mx' = [mx EXCEPT !.pc = "idle"]
    /\ UNCHANGED <<priceVars, daemonVars, retryVars, dispatchVars, calcVars,
                   paceVars>>

MetricsNext ==
    \/ registerMetricHandler
    \/ unregister
    \/ emit_begin
    \/ emit_handler
    \/ emit_end

(***************************************************************************)
(* One-shot commands: autonomy-loop (single cycle), auto-topup (single     *)
(* check), claim-fees, purchase-credits, check-credits.  Each runs         *)
(* `main().catch(handler)`.                                                *)
(***************************************************************************)
Commands == {"autonomy", "topup", "claim", "purchase", "credits"}

\* the commands that take --dry-run
HasDryRun(k) == k \in {"topup", "claim", "purchase"}

\* the handler passed to main().catch: `process.exit(1)` in autonomy-loop.ts,
\* auto-topup.ts and purchase-credits.ts; `console.error` in claim-fees.ts and
\* check-credits.ts, after which the process ends with status 0
CatchExits(k) == k \in {"autonomy", "topup", "purchase"}

\* the promise main() awaits has settled
OnceSettled ==
    CASE kind \in {"autonomy", "topup", "credits"} -> CycleSettled(cpc)
      [] kind = "claim"    -> Settled(op.claim)
      [] kind = "purchase" -> Settled(op.purchase)

\* ... by rejecting
OnceFailed ==
    CASE kind \in {"autonomy", "topup", "credits"} -> cpc = "threw"
      [] kind = "claim"    -> op.claim.st = "failed"
      [] kind = "purchase" -> op.purchase.st = "failed"

\* main() up to the first await of its operation
CliStart ==
    /\ Alive
    /\ dpc = "main"
    /\ dpc' = "once"
    /\ CASE kind = "autonomy" ->
              /\ state' = [state EXCEPT !.cycleCount = @ + 1]
              /\ reads' = Pending
              /\ cpc' = "gathering"
              /\ UNCHANGED op
         [] kind \in {"topup", "credits"} ->
              /\ cpc' = "credits"
              /\ UNCHANGED <<state, reads, op>>
         [] kind = "claim" ->
              /\ cpc' = "call"
              /\ op' = [op EXCEPT !.claim = [NoClaim EXCEPT !.st = "checkFees"]]
              /\ UNCHANGED <<state, reads>>
         [] kind = "purchase" ->
              /\ cpc' = "call"
              /\ op' = [op EXCEPT !.purchase = [NoPurchase EXCEPT !.st = "prepare"]]
              /\ UNCHANGED <<state, reads>>
    /\ hist' = [hist EXCEPT !.started = @ + 1]
    /\ UNCHANGED <<kind, dryRun, running, consecutiveFailures, exitCode,
                   gathered, cycleErr>>
    /\ UNCHANGED <<priceVars, retryVars, dispatchVars,
      calcVars, paceVars, metricVars>>

\* check-credits.ts main: `await checkCredits()`, the report, or the rethrow
checkCredits_main ==
    /\ Alive
    /\ kind = "credits"
    /\ cpc = "credits"
    /\ \/ \E a \in CreditValues :
            /\ gathered' = [gathered EXCEPT !.available = a]
            /\ cpc' = "returned"
            /\ UNCHANGED cycleErr
       \/ /\ cpc' = "threw"
          /\ cycleErr' = "Error"
          /\ UNCHANGED gathered
    /\ UNCHANGED <<kind, dryRun, running, dpc, consecutiveFailures, exitCode, state,
                   reads, op, hist>>
    /\ UNCHANGED <<priceVars, retryVars, dispatchVars,
      calcVars, paceVars, metricVars>>

\* main() settled: the catch handler runs if it rejected, and the process ends
CliExit ==
    /\ Alive
    /\ dpc = "once"
    /\ OnceSettled
    /\ dpc' = "exited"
    /\ exitCode' = IF OnceFailed /\ CatchExits(kind) THEN 1 ELSE 0
    /\ hist' = [hist EXCEPT !.succeeded = ~OnceFailed, !.failed = OnceFailed]
    /\ UNCHANGED <<kind, dryRun, running, consecutiveFailures, state,
                   cpc, reads, gathered, op, cycleErr>>
    /\ UNCHANGED <<priceVars, retryVars, dispatchVars,
      calcVars, paceVars, metricVars>>

CliNext ==
    \/ CliStart
    \/ checkCredits_main
    \/ CliExit
    \/ CycleSteps

DaemonNext ==
    \/ Signal
    \/ DaemonSteps

State0 == [lastFeeCheck |-> FALSE, lastCreditCheck |-> FALSE,
           totalWethClaimed |-> 0, totalCreditsPurchased |-> 0,
           tasksExecuted |-> 0, cycleCount |-> 0]
Oracle0 == [roundId |-> 1, answer |-> 250000, updatedAt |-> T0 \div 1000,
            decimals |-> 2]

\* the price module just loaded; no daemon is running
InitPrice ==
    /\ now = T0
    /\ ticks = 0
    /\ oracle = Oracle0
    /\ cachedPrice = <<>>
    /\ lastFetchTime = 0
    /\ ppc = "idle"
    /\ callNow = 0
    /\ calls = 0
    /\ remoteCalls = 0
    /\ lastResult = NoResult
    /\ kind = "autonomy"
    /\ dryRun = FALSE
    /\ running = TRUE
    /\ dpc = "stopped"
    /\ consecutiveFailures = 0
    /\ exitCode = -1
    /\ state = State0
    /\ cpc = "idle"
    /\ reads = NoReads
    /\ gathered = [wethFees |-> 0, available |-> 0]
    /\ op = NoOp
    /\ cycleErr = "none"
    /\ hist = HistInit
    /\ rt = Retry0
    /\ td = Td0
    /\ quote = Quote0
    /\ pace = Pace0
    /\ mx = Mx0

\* runDaemon is entered, by autonomy-loop --daemon or by auto-topup --daemon
InitDaemon ==
    /\ now = T0
    /\ ticks = 0
    /\ oracle = Oracle0
    /\ cachedPrice = <<>>
    /\ lastFetchTime = 0
    /\ ppc = "idle"
    /\ callNow = 0
    /\ calls = 0
    /\ remoteCalls = 0
    /\ lastResult = NoResult
    /\ kind \in {"autonomy", "topup"}
    /\ dryRun \in (IF kind = "topup" THEN BOOLEAN ELSE {FALSE})
    /\ running = TRUE
    /\ dpc = "while"
    /\ consecutiveFailures = 0
    /\ exitCode = -1
    /\ state = State0
    /\ cpc = "idle"
    /\ reads = NoReads
    /\ gathered = [wethFees |-> 0, available |-> 0]
    /\ op = NoOp
    /\ cycleErr = "none"
    /\ hist = HistInit
    /\ rt = Retry0
    /\ td = Td0
    /\ quote = Quote0
    /\ pace = Pace0
    /\ mx = Mx0

\* a one-shot command is started
InitCli ==
    /\ now = T0
    /\ ticks = 0
    /\ oracle = Oracle0
    /\ cachedPrice = <<>>
    /\ lastFetchTime = 0
    /\ ppc = "idle"
    /\ callNow = 0
    /\ calls = 0
    /\ remoteCalls = 0
    /\ lastResult = NoResult
    /\ kind \in Commands
    /\ dryRun \in (IF HasDryRun(kind) THEN BOOLEAN ELSE {FALSE})
    /\ running = TRUE
    /\ dpc = "main"
    /\ consecutiveFailures = 0
    /\ exitCode = -1
    /\ state = State0
    /\ cpc = "idle"
    /\ reads = NoReads
    /\ gathered = [wethFees |-> 0, available |-> 0]
    /\ op = NoOp
    /\ cycleErr = "none"
    /\ hist = HistInit
    /\ rt = Retry0
    /\ td = Td0
    /\ quote = Quote0
    /\ pace = Pace0
    /\ mx = Mx0

\* withRetry is called with some options
InitRetry ==
    /\ now = T0
    /\ ticks = 0
    /\ oracle = Oracle0
    /\ cachedPrice = <<>>
    /\ lastFetchTime = 0
    /\ ppc = "idle"
    /\ callNow = 0
    /\ calls = 0
    /\ remoteCalls = 0
    /\ lastResult = NoResult
    /\ kind = "autonomy"
    /\ dryRun = FALSE
    /\ running = TRUE
    /\ dpc = "stopped"
    /\ consecutiveFailures = 0
    /\ exitCode = -1
    /\ state = State0
    /\ cpc = "idle"
    /\ reads = NoReads
    /\ gathered = [wethFees |-> 0, available |-> 0]
    /\ op = NoOp
    /\ cycleErr = "none"
    /\ hist = HistInit
    /\ \E retries \in RetriesValues, delayMs \in DelayValues,
          backoff \in BackoffValues, maxDelayMs \in MaxDelayValues,
          onRetry \in OnRetryValues :
            rt = [Retry0 EXCEPT !.pc = "entry", !.retries = retries,
                                !.delayMs = delayMs, !.backoff = backoff,
                                !.maxDelayMs = maxDelayMs, !.onRetry = onRetry]
    /\ td = Td0
    /\ quote = Quote0
    /\ pace = Pace0
    /\ mx = Mx0

\* tier resolution: a declaration order of TIERS and the balances of two wallets
InitTier ==
    /\ now = T0
    /\ ticks = 0
    /\ oracle = Oracle0
    /\ cachedPrice = <<>>
    /\ lastFetchTime = 0
    /\ ppc = "idle"
    /\ callNow = 0
    /\ calls = 0
    /\ remoteCalls = 0
    /\ lastResult = NoResult
    /\ kind = "autonomy"
    /\ dryRun = FALSE
    /\ running = TRUE
    /\ dpc = "stopped"
    /\ consecutiveFailures = 0
    /\ exitCode = -1
    /\ state = State0
    /\ cpc = "idle"
    /\ reads = NoReads
    /\ gathered = [wethFees |-> 0, available |-> 0]
    /\ op = NoOp
    /\ cycleErr = "none"
    /\ hist = HistInit
    /\ rt = Retry0
    /\ \E table \in Reorderings, balance \in [Wallets -> BalanceValues] :
            td = [Td0 EXCEPT !.table = table, !.balance = balance]
    /\ quote = Quote0
    /\ pace = Pace0
    /\ mx = Mx0

\* a day of the dispatcher: two wallets that hold tokens or not
InitDispatch ==
    /\ now = T0
    /\ ticks = 0
    /\ oracle = Oracle0
    /\ cachedPrice = <<>>
    /\ lastFetchTime = 0
    /\ ppc = "idle"
    /\ callNow = 0
    /\ calls = 0
    /\ remoteCalls = 0
    /\ lastResult = NoResult
    /\ kind = "autonomy"
    /\ dryRun = FALSE
    /\ running = TRUE
    /\ dpc = "stopped"
    /\ consecutiveFailures = 0
    /\ exitCode = -1
    /\ state = State0
    /\ cpc = "idle"
    /\ reads = NoReads
    /\ gathered = [wethFees |-> 0, available |-> 0]
    /\ op = NoOp
    /\ cycleErr = "none"
    /\ hist = HistInit
    /\ rt = Retry0
    /\ \E balance \in [Wallets -> DispatchBalances] :
            td = [Td0 EXCEPT !.balance = balance]
    /\ quote = Quote0
    /\ pace = Pace0
    /\ mx = Mx0

\* before the first calculateEthForUsd call
InitCalc ==
    /\ now = T0
    /\ ticks = 0
    /\ oracle = Oracle0
    /\ cachedPrice = <<>>
    /\ lastFetchTime = 0
    /\ ppc = "idle"
    /\ callNow = 0
    /\ calls = 0
    /\ remoteCalls = 0
    /\ lastResult = NoResult
    /\ kind = "autonomy"
    /\ dryRun = FALSE
    /\ running = TRUE
    /\ dpc = "stopped"
    /\ consecutiveFailures = 0
    /\ exitCode = -1
    /\ state = State0
    /\ cpc = "idle"
    /\ reads = NoReads
    /\ gathered = [wethFees |-> 0, available |-> 0]
    /\ op = NoOp
    /\ cycleErr = "none"
    /\ hist = HistInit
    /\ rt = Retry0
    /\ td = Td0
    /\ quote = Quote0
    /\ pace = Pace0
    /\ mx = Mx0

\* runDaemon is entered with some CHECK_INTERVAL_MS
InitPace ==
    /\ now = T0
    /\ ticks = 0
    /\ oracle = Oracle0
    /\ cachedPrice = <<>>
    /\ lastFetchTime = 0
    /\ ppc = "idle"
    /\ callNow = 0
    /\ calls = 0
    /\ remoteCalls = 0
    /\ lastResult = NoResult
    /\ kind = "autonomy"
    /\ dryRun = FALSE
    /\ running = TRUE
    /\ dpc = "stopped"
    /\ consecutiveFailures = 0
    /\ exitCode = -1
    /\ state = State0
    /\ cpc = "idle"
    /\ reads = NoReads
    /\ gathered = [wethFees |-> 0, available |-> 0]
    /\ op = NoOp
    /\ cycleErr = "none"
    /\ hist = HistInit
    /\ rt = Retry0
    /\ td = Td0
    /\ quote = Quote0
    /\ \E checkInterval \in IntervalValues :
            pace = [Pace0 EXCEPT !.checkInterval = checkInterval]
    /\ mx = Mx0

\* the module is loaded: no handler, no event
InitMetrics ==
    /\ now = T0
    /\ ticks = 0
    /\ oracle = Oracle0
    /\ cachedPrice = <<>>
    /\ lastFetchTime = 0
    /\ ppc = "idle"
    /\ callNow = 0
    /\ calls = 0
    /\ remoteCalls = 0
    /\ lastResult = NoResult
    /\ kind = "autonomy"
    /\ dryRun = FALSE
    /\ running = TRUE
    /\ dpc = "stopped"
    /\ consecutiveFailures = 0
    /\ exitCode = -1
    /\ state = State0
    /\ cpc = "idle"
    /\ reads = NoReads
    /\ gathered = [wethFees |-> 0, available |-> 0]
    /\ op = NoOp
    /\ cycleErr = "none"
    /\ hist = HistInit
    /\ rt = Retry0
    /\ td = Td0
    /\ quote = Quote0
    /\ pace = Pace0
    /\ mx = Mx0

\* the price cache driven by its callers and its environment
SpecPrice == InitPrice /\ [][PriceNext]_vars

\* a daemon run, with signals arriving at any time
SpecDaemon == InitDaemon /\ [][DaemonNext]_vars

\* one withRetry call, from entry to its return or throw
SpecRetry == InitRetry /\ [][RetryNext]_vars

\* one fetchWithRetry call
SpecFetch == InitRetry /\ [][FetchNext]_vars

\* getAgentInfo for two wallets
SpecTier == InitTier /\ [][TierNext]_vars

\* the tasks of one day
SpecDispatch == InitDispatch /\ [][DispatchNext]_vars

\* calls of calculateEthForUsd
SpecCalc == InitCalc /\ [][CalcNext]_vars

\* the schedule of one daemon run
SpecPace == InitPace /\ [][PaceNext]_vars

\* handlers come and go while events are emitted
SpecMetrics == InitMetrics /\ [][MetricsNext]_vars

\* a one-shot command, from main() to the end of the process
SpecCli == InitCli /\ [][CliNext]_vars

\* the same, where every remote call and every sleep eventually returns
FairSpecDaemon == InitDaemon /\ [][DaemonNext]_vars /\ WF_vars(DaemonSteps)

(***************************************************************************)
(* Properties of the price cache (SpecPrice)                               *)
(***************************************************************************)

\* C1: getEthPriceUsd never returns, as a successful result, a snapshot whose
\* updatedAt is more than 1 hour older than the time of the call, cached
\* answers included.
C1_NeverReturnsStale ==
    lastResult.kind = "value" =>
        lastResult.callTime - lastResult.value[1].updatedAt * 1000 <= 3600000

\* C2: a fetch that returns oracle data older than the 1-hour window fails the
\* call: it returns neither the fetched nor the cached value, and the cached
\* snapshot and its fetch time stay as they were.
C2_StaleFetchFails ==
    [][ ( /\ ppc = "multicall" /\ ppc' = "idle"
          /\ lastResult'.fetched # <<>>
          /\ now - lastResult'.fetched[1].updatedAt * 1000 > 3600000 )
        => ( /\ lastResult'.kind = "error"
             /\ lastResult'.value = <<>>
             /\ cachedPrice' = cachedPrice
             /\ lastFetchTime' = lastFetchTime ) ]_vars

\* a stale fetch failed while an earlier snapshot was in the cache
C2_Witness ==
    /\ lastResult.kind = "error"
    /\ lastResult.fetched # <<>>
    /\ cachedPrice # <<>>

\* C3: once a snapshot has been fetched and cached, a call made less than 60
\* seconds after the recorded fetch time returns the cached snapshot and
\* issues no remote call.
C3_CachedWithinTtl ==
    [][ ( /\ calls' = calls + 1
          /\ cachedPrice # <<>>
          /\ now - lastFetchTime < 60000 )
        => ( /\ ppc' = "idle"
             /\ lastResult'.kind = "value"
             /\ lastResult'.value = cachedPrice
             /\ remoteCalls' = remoteCalls ) ]_vars

\* a second call, some time after the fetch, was answered from the cache:
\* two calls, one remote fetch
C3_Witness ==
    /\ lastResult.fromCache
    /\ calls = 2
    /\ remoteCalls = 1
    /\ now > lastFetchTime

(***************************************************************************)
(* Properties of the daemon loop and the cycle (SpecDaemon)                *)
(***************************************************************************)

\* C4: a daemon whose every cycle fails exits with status 1 right after the
\* 5th failing cycle: it runs 5 cycles and never starts a 6th.
C4_ExitAfterFiveFailures ==
    ~hist.succeeded =>
        /\ hist.started <= 5
        /\ (hist.streak = 5 => exitCode = 1)
        /\ (exitCode = 1 => hist.started = 5 /\ hist.streak = 5)

C4_Witness ==
    /\ exitCode = 1
    /\ ~hist.succeeded
    /\ hist.started = 5

\* C5: cycles that fail with a Recoverable error do not count toward the
\* shutdown threshold, so a run whose failing cycles all failed with
\* Recoverable errors never terminates the process.
C5_RecoverableNeverExits ==
    ~hist.fatal => exitCode # 1

\* C6: a cycle that completes without throwing sets consecutiveFailures to 0;
\* the failure exit happens only after 5 failing cycles with no successful
\* cycle between them; consecutiveFailures is below 5 whenever a cycle runs.
C6_SuccessResets ==
    /\ (hist.streak = 0 => consecutiveFailures = 0)
    /\ (exitCode = 1 => hist.streak = 5)
    /\ (dpc = "cycle" => consecutiveFailures < 5)

\* a cycle returned after an earlier one had thrown, and the counter is back to 0
C6_Witness ==
    /\ hist.failed /\ hist.succeeded
    /\ hist.streak = 0
    /\ consecutiveFailures = 0
    /\ dpc = "sleep"

\* C7: once a signal has cleared running, no new cycle starts, and the cycle in
\* flight is not interrupted: the daemon stops only with the cycle at its end.
C7_NoCycleAfterSignal ==
    /\ hist.startedAfterSignal = 0
    /\ (~running /\ dpc = "cycle" => hist.signalAt \in {"cycle", "settled"})
    /\ (dpc \in {"stopped", "exited"} =>
            /\ cpc = "idle"
            /\ ~InFlight(op.claim)
            /\ ~InFlight(op.purchase))

\* the signal arrived in mid-cycle and the daemon stopped after the cycle ended
C7_Witness ==
    /\ hist.signalAt = "cycle"
    /\ dpc = "stopped"
    /\ exitCode = 0

\* C8: if every remote call and every sleep returns, then after a signal the
\* daemon stops, having started no cycle and no sleep after the signal.
C8_EventuallyStops ==
    /\ (~running) ~> (dpc \in {"stopped", "exited"})
    /\ [](hist.sleepsAfterSignal = 0 /\ hist.startedAfterSignal = 0)

\* the signal arrived during the sleep and the daemon stopped when it ended
C8_Witness ==
    /\ hist.signalAt = "sleep"
    /\ ~running
    /\ dpc = "stopped"

\* C9: the purchase is submitted only when the claim phase is over, claim and
\* purchase are never in flight together, and a cycle starts only when the
\* previous one has returned or thrown.
C9_MutationsOrdered ==
    /\ ~(InFlight(op.claim) /\ InFlight(op.purchase))
    /\ (op.purchase.txs > 0 => ~InFlight(op.claim))
    /\ ~hist.overlap
    /\ (dpc # "cycle" => cpc = "idle")

\* the purchase transaction went out after the claim transaction was confirmed
C9_Witness ==
    /\ op.claim.st = "done"
    /\ op.claim.txs = 1
    /\ op.purchase.st = "receipt"
    /\ op.purchase.txs = 1

\* C10: if one of the three gathering reads fails, the cycle fails and neither
\* a claim nor a purchase is attempted in it.
C10_ReadFailureFailsCycle ==
    (\E r \in ReadNames : reads[r] = "rejected") =>
        /\ cpc \in {"gathering", "threw"}
        /\ op = NoOp

\* one read failed although the fees read by another called for a claim
C10_Witness ==
    /\ cpc = "threw"
    /\ reads["credits"] = "rejected"
    /\ reads["fees"] = "fulfilled"
    /\ ClaimWanted(gathered.wethFees)

(***************************************************************************)
(* Properties of the cycle's claim and funding steps (SpecDaemon)          *)
(***************************************************************************)
AllGathered == \A r \in ReadNames : reads[r] = "fulfilled"

\* C11: in a cycle whose gathered WETH fees are below the minimum-claim
\* threshold, claimFees is never invoked and no error comes from it,
\* totalWethClaimed stays what it was when the cycle started, and the funding
\* step is still evaluated: a purchase is attempted exactly when the gathered
\* credits are below the minimum.
C11_BelowThresholdSkipsClaim ==
    ( /\ kind = "autonomy"
      /\ AllGathered
      /\ cpc \notin {"idle", "gathering"}
      /\ gathered.wethFees < minWethForTopup )
    => /\ op.claim = NoClaim
       /\ cpc # "claim"
       /\ state.totalWethClaimed = hist.wethBefore
       /\ (gathered.available < minCredits => op.purchase.st # "none")
       /\ (gathered.available >= minCredits =>
              cpc = "returned" /\ op.purchase = NoPurchase)
       /\ (cpc = "threw" => op.purchase.st = "failed" /\ cycleErr = op.purchase.err)

\* fees were there but below the threshold: no claim, and the purchase
\* transaction of the same cycle is out
C11_Witness ==
    /\ kind = "autonomy"
    /\ AllGathered
    /\ gathered.wethFees > 0
    /\ gathered.wethFees < minWethForTopup
    /\ op.claim = NoClaim
    /\ op.purchase.st = "receipt"

\* C13: in the funding step a safety-gate rejection (balance short of the
\* funding amount, gas price above the ceiling) or a Recoverable failure does
\* not fail the cycle: the cycle returns and totalCreditsPurchased stays what
\* it was when the cycle started.
C13_GateRejectionKeepsCycle ==
    ( /\ kind = "autonomy"
      /\ cpc \in {"returned", "threw"}
      /\ op.purchase.st = "failed"
      /\ (op.purchase.needed > 0 \/ isRecoverable(op.purchase.err)) )
    => /\ cpc = "returned"
       /\ state.totalCreditsPurchased = hist.creditsBefore

(***************************************************************************)
(* Properties of the pre-flight checks and of the commands (SpecCli)       *)
(***************************************************************************)

\* C14: a claim or purchase transaction is submitted only by a call that has
\* passed both pre-flight checks, the balance check and the gas-price
\* ceiling check.
C14_ChecksBeforeSubmit ==
    /\ (op.claim.st = "receipt" => op.claim.passed = {"balance", "ceiling"})
    /\ (op.purchase.st = "receipt" => op.purchase.passed = {"balance", "ceiling"})

\* C15 as stated: the claim's balance check rejects, naming needed and
\* available amounts and submitting nothing, exactly when the balance is less
\* than 1.2 times the estimated cost, and accepts otherwise.
C15_RejectsBelowBuffer ==
    /\ (op.claim.st \in {"submit", "receipt"} =>
            10 * op.claim.balance >= 12 * op.claim.estimatedCost)
    /\ (op.claim.st = "failed" /\ op.claim.needed > 0 =>
            /\ 10 * op.claim.balance < 12 * op.claim.estimatedCost
            /\ op.claim.balance < op.claim.needed
            /\ op.claim.txs = 0)

\* C15 as amended: the check rejects exactly when the balance is less than
\* 1.2 times the estimated cost rounded down to a whole unit, so that an
\* accepted balance is short of 1.2 times the cost by less than one unit.
C15_RejectsBelowFlooredBuffer ==
    /\ (op.claim.st \in {"submit", "receipt"} =>
            10 * op.claim.balance > 12 * op.claim.estimatedCost - 10)
    /\ (op.claim.st = "failed" /\ op.claim.needed > 0 =>
            /\ 10 * op.claim.balance < 12 * op.claim.estimatedCost
            /\ 10 * op.claim.needed <= 12 * op.claim.estimatedCost
            /\ 10 * op.claim.needed > 12 * op.claim.estimatedCost - 10
            /\ op.claim.balance < op.claim.needed
            /\ op.claim.err = "Error"
            /\ op.claim.txs = 0)

\* available 1.0 against a cost of 0.9: 1.08 is needed, the claim is rejected
C15_Witness ==
    /\ op.claim.st = "failed"
    /\ op.claim.balance = 10000
    /\ op.claim.estimatedCost = 9000
    /\ op.claim.needed = 10800

\* C16: whenever the gas price read by purchaseCredits is above 50 gwei, the
\* call raises a Recoverable error and submits nothing: no call gets to the
\* submission with a gas price above the ceiling.
C16_AboveCeilingRejected ==
    op.purchase.st \in {"submit", "receipt"} =>
        op.purchase.gasPrice <= 10 * MAX_GAS_PRICE_GWEI

C18_FailureExitsNonZero ==
    (dpc = "exited" /\ hist.failed) => exitCode > 0

\* C37: totalWethClaimed grows only in a step that consumes a claim whose
\* transaction was confirmed with status success, and by the fees that claim
\* reported.
C37_TotalCountsConfirmedClaims ==
    [][ state'.totalWethClaimed # state.totalWethClaimed =>
            /\ op.claim.st = "done"
            /\ op.claim.status = "success"
            /\ op.claim.txs = 1
            /\ state'.totalWethClaimed = state.totalWethClaimed + op.claim.wethClaimed
      ]_vars

\* C38: a claimFees call and a purchaseCredits call each hand at most one
\* transaction to the node, retries included.
C38_OneTransactionPerCall ==
    /\ op.claim.txs <= 1
    /\ op.purchase.txs <= 1

(***************************************************************************)
(* Properties of calculateEthForUsd (SpecCalc)                             *)
(***************************************************************************)

\* C31: the amount calculateEthForUsd returns is a whole number of millionths
\* of an ETH, and it is within half a millionth of
\* usdAmount * (1 + bufferPercent / 100) / price.
C31_RoundedToSixDecimals ==
    quote.pc = "returned" =>
        LET millionth == 10 ^ (EtherDecimals - 6)
            count == quote.result \div millionth
            exact == quote.usdAmount * (100 + quote.bufferPercent) * 10 ^ 6
        IN  /\ quote.result % millionth = 0
            /\ 2 * (count * quote.price - exact) <= quote.price
            /\ 2 * (exact - count * quote.price) <= quote.price

\* a quotient nearer to the millionth above it
C31_Witness ==
    /\ quote.pc = "returned"
    /\ quote.usdAmount = 10
    /\ quote.bufferPercent = 20
    /\ quote.price = 199937
    /\ quote.result = 600200

(***************************************************************************)
(* Properties of the daemon's schedule (SpecPace)                          *)
(***************************************************************************)

\* C32: the daemon sleeps the interval less the cycle's duration when that is
\* positive and does not sleep otherwise: a cycle shorter than the interval is
\* followed by a start exactly one interval after its own start, a longer one
\* by a start at its end.
C32_StartsOneIntervalApart ==
    /\ (pace.pc = "sleep" =>
            /\ pace.cycleDuration < pace.checkInterval
            /\ pace.remainingWait = pace.checkInterval - pace.cycleDuration
            /\ pace.clock = pace.cycleStart + pace.cycleDuration)
    /\ (pace.pc = "cycle" /\ pace.starts >= 2 =>
            IF pace.cycleDuration < pace.checkInterval
            THEN /\ pace.slept
                 /\ pace.cycleStart = pace.previousStart + pace.checkInterval
            ELSE /\ ~pace.slept
                 /\ pace.cycleStart = pace.previousStart + pace.cycleDuration)

\* a cycle of 2 minutes followed by one of 7, on the 5 minute interval
C32_Witness ==
    /\ pace.pc = "cycle"
    /\ pace.starts = 3
    /\ pace.checkInterval = 5
    /\ pace.previousStart = 5
    /\ pace.cycleDuration = 7
    /\ pace.cycleStart = 12
    /\ ~pace.slept

(***************************************************************************)
(* Properties of the metric handlers (SpecMetrics)                         *)
(***************************************************************************)
EmissionOver == mx.pc = "idle" /\ mx.counter > 0

\* registered when the emission began and left alone during it
Untouched(h) ==
    /\ mx.atStart[h] > 0
    /\ h \notin mx.unregistered
    /\ h \notin mx.registered

\* C35: in an event emitted after an unregister function was called, a
\* handler all of whose unregister functions were called is not invoked, and
\* every handler that has one not yet called is invoked.
C35_UnregisteredHandlerSilent ==
    (EmissionOver /\ mx.revoked) =>
        \A h \in HandlerIds :
            /\ (mx.liveAtStart[h] = 0 /\ h \notin mx.registered => mx.invoked[h] = 0)
            /\ (mx.liveAtStart[h] > 0 /\ h \notin mx.unregistered => mx.invoked[h] >= 1)

\* C36: an emission in which a handler threw has counted its event and has
\* invoked every other handler registered for it.
C36_ThrowingHandlerIsolated ==
    (EmissionOver /\ mx.threw) =>
        \A h \in HandlerIds : Untouched(h) => mx.invoked[h] >= 1

\* C40: an emission invokes each handler that was registered when it began and
\* was not unregistered during it exactly once for each of its registrations.
C40_EachInvokedOnce ==
    EmissionOver =>
        \A h \in HandlerIds : Untouched(h) => mx.invoked[h] = mx.atStart[h]

(***************************************************************************)
(* Properties of withRetry (SpecRetry)                                     *)
(***************************************************************************)

\* C19: withRetry with N retries and an operation that always fails invokes
\* the operation exactly N+1 times and then fails with the error of the last
\* invocation.
C19_AlwaysFailingRunsAllAttempts ==
    rt.pc = "threw" =>
        /\ rt.invocations = rt.retries + 1
        /\ rt.thrown = <<rt.lastError>>
        /\ rt.lastError.by = rt.invocations

\* C20: when the first invocation fails with a NonRetryable error, withRetry
\* fails with that error at once: one invocation, no sleep, whatever the
\* retry count.
C20_NonRetryableFailsFast ==
    (rt.lastError.cls = "NonRetryableError" /\ rt.lastError.by = 1) =>
        /\ rt.pc = "threw"
        /\ rt.thrown = <<rt.lastError>>
        /\ rt.invocations = 1
        /\ rt.slept = <<>>

\* C22: an onRetry callback that throws does not abort the loop: what
\* withRetry throws is the error of the operation, never the callback's.
C22_ObserverFailureIgnored ==
    rt.pc = "threw" => rt.thrown = <<rt.lastError>>

\* C23: the k-th sleep of a withRetry call (the one before retry k) lasts
\* min(delayMs * backoff^(k-1), maxDelayMs).
C23_DelayBeforeRetry ==
    \A k \in 1 .. Len(rt.slept) :
        LET grown == rt.delayMs * rt.backoff ^ (k - 1) IN
        rt.slept[k] = IF grown <= rt.maxDelayMs THEN grown ELSE rt.maxDelayMs

C23_Witness ==
    /\ rt.delayMs = 1000
    /\ rt.backoff = 2
    /\ rt.maxDelayMs = 30000
    /\ rt.slept = <<1000, 2000, 4000>>

\* C24 as stated: with a backoff above 1 every sleep is longer than the one
\* before it.
C24_StrictlyIncreasing ==
    rt.backoff > 1 =>
        \A k \in 1 .. Len(rt.slept) - 1 : rt.slept[k] < rt.slept[k + 1]

\* C24: with a backoff above 1 the sleeps never get shorter, and a sleep is
\* longer than the one before it unless it has reached maxDelayMs.
C24_IncreasingUpToMaxDelay ==
    rt.backoff > 1 =>
        \A k \in 1 .. Len(rt.slept) - 1 :
            /\ rt.slept[k] <= rt.slept[k + 1]
            /\ rt.slept[k + 1] <= rt.maxDelayMs
            /\ (rt.slept[k + 1] < rt.maxDelayMs => rt.slept[k] < rt.slept[k + 1])
            /\ (rt.slept[k] = rt.slept[k + 1] => rt.slept[k] = rt.maxDelayMs)

C24_Witness ==
    /\ rt.backoff = 2
    /\ rt.maxDelayMs = 2000
    /\ rt.slept = <<1000, 2000, 2000>>

\* C33: onRetry is called once per retry, before the sleep that precedes it,
\* with the error of the attempt that just failed and the number of that
\* attempt; it is not called after a success or after the last failed attempt.
C33_ObservedOncePerRetry ==
    rt.onRetry # "absent" =>
        /\ Len(rt.observed) = Len(rt.slept)
        /\ \A k \in 1 .. Len(rt.observed) :
              /\ rt.observed[k][2] = k
              /\ rt.observed[k][1].by = k
        /\ (rt.pc \in {"returned", "threw"} /\ rt.invocations >= 1 =>
                Len(rt.observed) = rt.invocations - 1)
        /\ (rt.invocations = 0 => rt.observed = <<>>)

\* C34: when withRetry returns, it returns the result of the last invocation,
\* the k-th, which is the first that succeeded (k <= retries + 1): the k - 1
\* invocations before it failed and were each followed by one sleep, and no
\* step invokes the operation after the return.
C34_ReturnsFirstSuccess ==
    [][ /\ (rt'.pc = "returned" =>
              /\ rt'.result = rt'.invocations
              /\ rt'.invocations >= 1
              /\ rt'.invocations <= rt'.retries + 1
              /\ Len(rt'.slept) = rt'.invocations - 1
              /\ rt'.lastError.by = rt'.invocations - 1
              /\ rt'.thrown = <<>>)
        /\ (rt.pc = "returned" => rt' = rt) ]_vars

C34_Witness ==
    /\ rt.pc = "returned"
    /\ rt.retries = 2
    /\ rt.invocations = 3
    /\ rt.result = 3

\* C39: a withRetry call that has ended invoked the operation at least once,
\* and an error it threw is the error of one of the invocations.
C39_AtLeastOneInvocation ==
    rt.pc \in {"returned", "threw"} =>
        /\ rt.invocations >= 1
        /\ (rt.pc = "threw" => rt.thrown[1].by >= 1)

(***************************************************************************)
(* Properties of the daemon's totals (SpecDaemon)                          *)
(***************************************************************************)

\* C30: no step of a run, in a cycle that returns or in one that throws, makes
\* totalWethClaimed or totalCreditsPurchased smaller, and in every state they
\* are at least what they were when the current cycle started.
C30_TotalsNeverDecrease ==
    [][ /\ state'.totalWethClaimed >= state.totalWethClaimed
        /\ state'.totalCreditsPurchased >= state.totalCreditsPurchased
        /\ state'.totalWethClaimed >= hist'.wethBefore
        /\ state'.totalCreditsPurchased >= hist'.creditsBefore ]_vars

C30_Witness ==
    /\ kind = "autonomy"
    /\ dpc = "while"
    /\ hist.streak >= 2
    /\ hist.succeeded
    /\ state.totalWethClaimed > 0
    /\ state.totalCreditsPurchased > 0

(***************************************************************************)
(* Properties of fetchWithRetry (SpecFetch)                                *)
(***************************************************************************)

\* C21: a response with a 4xx status is not retried: the call that received
\* it is the last call of fetch, and fetchWithRetry throws the error made
\* from that response.
C21_ClientErrorNotRetried ==
    \A i \in 1 .. Len(rt.statuses) :
        IsClientError(rt.statuses[i]) =>
            /\ rt.pc = "threw"
            /\ rt.invocations = i
            /\ rt.thrown = <<rt.lastError>>
            /\ rt.lastError.by = i

(***************************************************************************)
(* Properties of tier resolution (SpecTier)                                *)
(***************************************************************************)
Resolved(w) == td.info[w] # NoInfo
TierNamed(name) == CHOOSE t \in TierSet : t.name = name
\* the tier with the greatest threshold that is at most b
HighestReached(b) ==
    CHOOSE t \in TierSet :
        /\ t.threshold <= b
        /\ \A u \in TierSet : u.threshold <= b => u.threshold <= t.threshold

\* C25: for every balance the tier returned is one of the four tiers, the one
\* with the greatest threshold at or below the balance: Free from 0, Basic
\* from 10,000 tokens, Pro from 100,000, Unlimited from 1,000,000.
C25_GreatestThresholdReached ==
    \A w \in Wallets :
        Resolved(w) =>
            LET b == td.balance[w] IN
            /\ td.info[w].tier \in {t.name : t \in TierSet}
            /\ td.info[w].tier = HighestReached(b).name
            /\ td.info[w].dailyQuota = HighestReached(b).quota
            /\ (b < parseUnits(10000, TokenDecimals) => td.info[w].tier = "Free")
            /\ (b >= parseUnits(10000, TokenDecimals) /\ b < parseUnits(100000, TokenDecimals)
                    => td.info[w].tier = "Basic (10K)")
            /\ (b >= parseUnits(100000, TokenDecimals) /\ b < parseUnits(1000000, TokenDecimals)
                    => td.info[w].tier = "Pro (100K)")
            /\ (b >= parseUnits(1000000, TokenDecimals) => td.info[w].tier = "Unlimited (1M)")

C25_Witness ==
    /\ td.balance["a"] = parseUnits(100000, TokenDecimals) + 1
    /\ td.info["a"].tier = "Pro (100K)"
    /\ td.balance["b"] = parseUnits(10000000, TokenDecimals)
    /\ td.info["b"].tier = "Unlimited (1M)"

\* C26: of two wallets, the one with the larger balance gets a tier whose
\* threshold is at least the threshold of the other's tier.
C26_Monotonic ==
    \A w1, w2 \in Wallets :
        (Resolved(w1) /\ Resolved(w2) /\ td.balance[w1] >= td.balance[w2]) =>
            TierNamed(td.info[w1].tier).threshold >= TierNamed(td.info[w2].tier).threshold

C26_Witness ==
    /\ Resolved("a") /\ Resolved("b")
    /\ td.balance["a"] > td.balance["b"]
    /\ TierNamed(td.info["a"].tier).threshold > TierNamed(td.info["b"].tier).threshold

\* C27: a balance equal to a tier's threshold gets that tier, and a balance one
\* base unit below it gets the next tier down, at each of the three thresholds.
C27_BoundaryInclusive ==
    \A w \in Wallets : \A t \in TierSet :
        (Resolved(w) /\ t.threshold > 0) =>
            /\ (td.balance[w] = t.threshold => td.info[w].tier = t.name)
            /\ (td.balance[w] = t.threshold - 1 =>
                    /\ td.info[w].tier # t.name
                    /\ TierNamed(td.info[w].tier).threshold < t.threshold
                    /\ \A u \in TierSet :
                          u.threshold < t.threshold =>
                              u.threshold <= TierNamed(td.info[w].tier).threshold)

C27_Witness ==
    /\ td.balance["a"] = parseUnits(10000, TokenDecimals)
    /\ td.info["a"].tier = "Basic (10K)"
    /\ td.balance["b"] = parseUnits(10000, TokenDecimals) - 1
    /\ td.info["b"].tier = "Free"

C29_ForwardedWithinQuota ==
    \A w \in Wallets :
        td.forwarded[w] <= TierOf(TIERS, td.balance[w]).quota

====
